---- MODULE Spec2Model ----
(***************************************************************************)
(* Model of the Cortex project-scoped memory store                         *)
(* (packages/core/src/storage.ts), of the command line tool that drives    *)
(* it, and of the project resolver (packages/core/src/context.ts) that     *)
(* gives a store its project identifier.  One backing file (the table      *)
(* `memories`) is shared by several MemoryStore instances; every public    *)
(* method is one action.  The resolver walks a filesystem of a few         *)
(* directories in which .git markers and package.json files are placed.    *)
(*                                                                         *)
(* Texts (content, queries, serialized JSON, command line arguments) are   *)
(* sequences of one-character strings, so that LIKE matching, JSON         *)
(* serialization and parseInt are computed character by character.         *)
(***************************************************************************)
EXTENDS Integers, Sequences, FiniteSets, TLC

VARIABLES
    rows,    \* the rows of table `memories` in the backing file
    seq,     \* sqlite_sequence of the AUTOINCREMENT key: largest id ever assigned
    clock,   \* CURRENT_TIMESTAMP, in whole seconds
    writer,  \* history: for each stored id, the instance that added it and how
    last,    \* the last completed call: its arguments, outcome and the rows before it
    issued,  \* history: the ids successful add calls returned, in call order
    fs,      \* the filesystem: where the .git marker and package.json files are
    cache,   \* ProjectContext.cache: input string -> project id
    memo,    \* history: per input, the ids getProjectId returned since the last clearCache
    returned, \* history: per input, the outcome of the first getProjectId call
    conns,   \* the connections of instances in other processes: where each is in its call
    editor,  \* the editor extension's MemoryStore: its promise, its database, its calls
    provider \* the editor extension's CortexTaskProvider: its cache and its scans

vars == <<rows, seq, clock, writer, last, issued, fs, cache, memo, returned,
          conns, editor, provider>>

\* The state of the processes beside the one whose calls are taken whole.
apart == <<conns, editor, provider>>

\* The state of the project resolver, which no method of an open store touches.
resolver == <<fs, cache, memo, returned>>

(***************************************************************************)
(* Bounds of the model.                                                    *)
(***************************************************************************)
MaxId == 2       \* ids the AUTOINCREMENT key hands out
MaxClock == 1    \* seconds the clock advances
MaxTags == 2     \* elements of a tags list, members of a metadata object
MaxRichRows == 1 \* rows held at a time in the serialization scenarios
MaxQuery == 2    \* characters of a search query
MaxLimit == 2    \* largest limit passed to list and search

(***************************************************************************)
(* Optional values (undefined / null / SQL NULL).                          *)
(***************************************************************************)
NullStr == [has |-> FALSE, val |-> ""]
NullSeq == [has |-> FALSE, val |-> <<>>]
NullNum == [has |-> FALSE, val |-> 0]
Some(v) == [has |-> TRUE, val |-> v]

\* JavaScript truthiness of an optional string, text, number, array or object.
TruthyStr(o) == o.has /\ o.val # ""
TruthyText(o) == o.has /\ o.val # <<>>
TruthyNum(o) == o.has /\ o.val # 0
TruthyObj(o) == o.has

Max(S) == CHOOSE x \in S : \A y \in S : y <= x
Min2(a, b) == IF a <= b THEN a ELSE b

RECURSIVE Concat(_)
Concat(ss) == IF ss = <<>> THEN <<>> ELSE Head(ss) \o Concat(Tail(ss))

(***************************************************************************)
(* Schema: CHECK(type IN (...)), NOT NULL columns.                         *)
(***************************************************************************)
Types == {"fact", "decision", "code", "config", "note"}

\* The identifier ProjectContext.getProjectId() yields for the process's
\* working directory.
CwdProjectId == "cwd"

(***************************************************************************)
(* constructor(options)                                                    *)
(***************************************************************************)
\* Faulty variant: a projectId option is kept in global mode as well.
MemoryStoreProjectIdFirst(opts) ==
    LET globalMode == IF opts.globalMode.has THEN opts.globalMode.val ELSE FALSE
    IN  [globalMode |-> globalMode,
         projectId  |-> IF TruthyStr(opts.projectId) THEN opts.projectId
                        ELSE IF globalMode THEN NullStr
                        ELSE Some(CwdProjectId)]

MemoryStore(opts) ==
    LET globalMode == IF opts.globalMode.has THEN opts.globalMode.val ELSE FALSE
    IN  [globalMode |-> globalMode,
         projectId  |-> IF globalMode THEN NullStr
                        ELSE IF TruthyStr(opts.projectId) THEN opts.projectId
                        ELSE Some(CwdProjectId)]

NullBool == [has |-> FALSE, val |-> FALSE]

Options ==
    [projectId  : {NullStr, Some(""), Some("A")},
     globalMode : {NullBool, Some(FALSE), Some(TRUE)}]

\* The instances open on the backing file: one in global mode, one pinned to
\* project "A", one scoped by the resolver.
Stores == {MemoryStore(o) : o \in Options}

\* Project identifiers rows can carry: "B" enters through per-call overrides.
ProjectIds == {"A", "B", CwdProjectId}

Scoped(pid) == MemoryStore([projectId |-> Some(pid), globalMode |-> NullBool])
GlobalStore == MemoryStore([projectId |-> NullStr, globalMode |-> Some(TRUE)])

\* Faulty variants of the project filter: one that is never appended, and one
\* that is appended in global mode as well (binding the null project id).
InScopeNoFilter(s, row) == TRUE
InScopeAlwaysFilter(s, row) ==
    row.project_id.has /\ s.projectId.has /\ row.project_id.val = s.projectId.val

(***************************************************************************)
(* The project filter every read and delete appends:                       *)
(*   if (!this.globalMode && this.projectId) sql += ' AND project_id = ?'  *)
(***************************************************************************)
InScope(s, row) ==
    IF ~s.globalMode /\ TruthyStr(s.projectId)
    THEN row.project_id.has /\ row.project_id.val = s.projectId.val
    ELSE TRUE

(***************************************************************************)
(* JSON.stringify / JSON.parse on the values the store serializes:         *)
(* tags, an array of strings, and metadata, an object whose values are     *)
(* strings or non-negative integers.  An object is the sequence of its     *)
(* members in insertion order.                                             *)
(***************************************************************************)
Num(n) == [t |-> "num", n |-> n, s |-> <<>>]
Str(s) == [t |-> "str", n |-> 0, s |-> s]
Member(k, v) == [k |-> k, v |-> v]

Digits == <<"0", "1", "2", "3", "4", "5", "6", "7", "8", "9">>
IsDigit(c) == \E d \in 1..10 : Digits[d] = c
DigitVal(c) == (CHOOSE d \in 1..10 : Digits[d] = c) - 1

RECURSIVE NumToText(_)
NumToText(n) ==
    IF n < 10 THEN <<Digits[n + 1]>>
    ELSE NumToText(n \div 10) \o <<Digits[(n % 10) + 1]>>

EscapeChar(c) ==
    IF c = "\"" THEN <<"\\", "\"">>
    ELSE IF c = "\\" THEN <<"\\", "\\">>
    ELSE <<c>>

QuoteJSON(s) ==
    <<"\"">> \o Concat([i \in 1..Len(s) |-> EscapeChar(s[i])]) \o <<"\"">>

\* The elements of ss separated by commas.
RECURSIVE JoinComma(_)
JoinComma(ss) ==
    IF ss = <<>> THEN <<>>
    ELSE IF Len(ss) = 1 THEN ss[1]
    ELSE ss[1] \o <<",">> \o JoinComma(Tail(ss))

StringifyValue(v) == IF v.t = "num" THEN NumToText(v.n) ELSE QuoteJSON(v.s)

StringifyArray(a) ==
    <<"[">> \o JoinComma([i \in 1..Len(a) |-> QuoteJSON(a[i])]) \o <<"]">>

StringifyObject(o) ==
    <<"{">>
    \o JoinComma([i \in 1..Len(o) |-> QuoteJSON(o[i].k) \o <<":">> \o StringifyValue(o[i].v)])
    \o <<"}">>

\* Parse results: [ok, val, next], next being the position after the value.
ParseFail == [ok |-> FALSE, val |-> <<>>, next |-> 0]
Parsed(v, n) == [ok |-> TRUE, val |-> v, next |-> n]

\* The characters of a string literal whose opening quote precedes position i.
RECURSIVE ReadChars(_, _, _)
ReadChars(t, i, acc) ==
    IF i > Len(t) THEN ParseFail
    ELSE IF t[i] = "\"" THEN Parsed(acc, i + 1)
    ELSE IF t[i] = "\\"
         THEN IF i + 1 <= Len(t) /\ t[i + 1] \in {"\"", "\\"}
              THEN ReadChars(t, i + 2, Append(acc, t[i + 1]))
              ELSE ParseFail
    ELSE ReadChars(t, i + 1, Append(acc, t[i]))

ParseString(t, i) ==
    IF i <= Len(t) /\ t[i] = "\"" THEN ReadChars(t, i + 1, <<>>) ELSE ParseFail

RECURSIVE ReadDigits(_, _, _)
ReadDigits(t, i, acc) ==
    IF i <= Len(t) /\ IsDigit(t[i])
    THEN ReadDigits(t, i + 1, acc * 10 + DigitVal(t[i]))
    ELSE Parsed(acc, i)

ParseValue(t, i) ==
    IF i > Len(t) THEN ParseFail
    ELSE IF t[i] = "\""
         THEN LET r == ParseString(t, i)
              IN  IF r.ok THEN Parsed(Str(r.val), r.next) ELSE ParseFail
    ELSE IF IsDigit(t[i])
         THEN LET r == ReadDigits(t, i, 0) IN Parsed(Num(r.val), r.next)
    ELSE ParseFail

\* The elements of an array from position i on, up to and including "]".
RECURSIVE ReadElements(_, _, _)
ReadElements(t, i, acc) ==
    LET r == ParseString(t, i)
    IN  IF ~r.ok \/ r.next > Len(t) THEN ParseFail
        ELSE IF t[r.next] = "]" THEN Parsed(Append(acc, r.val), r.next + 1)
        ELSE IF t[r.next] = "," THEN ReadElements(t, r.next + 1, Append(acc, r.val))
        ELSE ParseFail

\* The members of an object from position i on, up to and including "}".
\* A repeated key keeps its first position and takes the last value.
PutMember(acc, k, v) ==
    IF \E j \in 1..Len(acc) : acc[j].k = k
    THEN [j \in 1..Len(acc) |-> IF acc[j].k = k THEN Member(k, v) ELSE acc[j]]
    ELSE Append(acc, Member(k, v))

RECURSIVE ReadMembers(_, _, _)
ReadMembers(t, i, acc) ==
    LET k == ParseString(t, i)
    IN  IF ~k.ok \/ k.next > Len(t) \/ t[k.next] # ":" THEN ParseFail
        ELSE LET v == ParseValue(t, k.next + 1)
             IN  IF ~v.ok \/ v.next > Len(t) THEN ParseFail
                 ELSE IF t[v.next] = "}"
                      THEN Parsed(PutMember(acc, k.val, v.val), v.next + 1)
                 ELSE IF t[v.next] = ","
                      THEN ReadMembers(t, v.next + 1, PutMember(acc, k.val, v.val))
                 ELSE ParseFail

\* JSON.parse: [ok, val]; ok is FALSE where JSON.parse throws a SyntaxError.
JSONParse(t) ==
    LET r == IF Len(t) >= 2 /\ t[1] = "[" /\ t[2] = "]" THEN Parsed(<<>>, 3)
             ELSE IF Len(t) >= 2 /\ t[1] = "{" /\ t[2] = "}" THEN Parsed(<<>>, 3)
             ELSE IF Len(t) >= 1 /\ t[1] = "[" THEN ReadElements(t, 2, <<>>)
             ELSE IF Len(t) >= 1 /\ t[1] = "{" THEN ReadMembers(t, 2, <<>>)
             ELSE ParseFail
    IN  [ok |-> r.ok /\ r.next = Len(t) + 1, val |-> r.val]

\* Faulty variant: an empty tags list is stored like an absent one.
TagsColumnEmptyAsNull(tags) ==
    IF tags.has /\ tags.val # <<>> THEN Some(StringifyArray(tags.val)) ELSE NullSeq

\* memory.tags ? JSON.stringify(memory.tags) : null
TagsColumn(tags) == IF TruthyObj(tags) THEN Some(StringifyArray(tags.val)) ELSE NullSeq

\* memory.metadata ? JSON.stringify(memory.metadata) : null
MetadataColumn(metadata) ==
    IF TruthyObj(metadata) THEN Some(StringifyObject(metadata.val)) ELSE NullSeq

\* row.tags ? JSON.parse(row.tags) : undefined   (and the same for metadata)
ReadColumn(col) == IF TruthyText(col) THEN Some(JSONParse(col.val).val) ELSE NullSeq
ColumnParses(col) == ~TruthyText(col) \/ JSONParse(col.val).ok

rowToMemory(row) ==
    [id        |-> row.id,
     projectId |-> row.project_id,
     content   |-> row.content,
     type      |-> row.type,
     source    |-> row.source,
     tags      |-> ReadColumn(row.tags),
     metadata  |-> ReadColumn(row.metadata),
     createdAt |-> row.created_at,
     updatedAt |-> row.updated_at]

(***************************************************************************)
(* SQLite's LIKE: % matches any run of characters, _ any one character,    *)
(* letters compare without regard to ASCII case; the statements give no    *)
(* ESCAPE character.                                                       *)
(***************************************************************************)
UpperCase == <<"A", "B", "C", "D", "E", "F", "G", "H", "I", "J", "K", "L", "M",
               "N", "O", "P", "Q", "R", "S", "T", "U", "V", "W", "X", "Y", "Z">>
LowerCase == <<"a", "b", "c", "d", "e", "f", "g", "h", "i", "j", "k", "l", "m",
               "n", "o", "p", "q", "r", "s", "t", "u", "v", "w", "x", "y", "z">>
Lower(c) ==
    IF \E i \in 1..26 : UpperCase[i] = c
    THEN LowerCase[CHOOSE i \in 1..26 : UpperCase[i] = c]
    ELSE c

RECURSIVE LikeMatch(_, _)
LikeMatch(p, t) ==
    IF p = <<>> THEN t = <<>>
    ELSE IF Head(p) = "%"
         THEN \E k \in 0..Len(t) : LikeMatch(Tail(p), SubSeq(t, k + 1, Len(t)))
    ELSE IF t = <<>> THEN FALSE
    ELSE IF Head(p) = "_" THEN LikeMatch(Tail(p), Tail(t))
    ELSE Lower(Head(p)) = Lower(Head(t)) /\ LikeMatch(Tail(p), Tail(t))

\* Faulty variant: the query is bound without the wildcards around it.
SearchPatternExact(query) == query

\* `%${query}%`
SearchPattern(query) == <<"%">> \o query \o <<"%">>

(***************************************************************************)
(* SELECT ... ORDER BY created_at DESC [LIMIT ?]                           *)
(* created_at has a resolution of one second and the statement names no    *)
(* second sort key: rows of the same second come in any order.             *)
(***************************************************************************)
OrderByCreatedDesc(S) ==
    {f \in [1..Cardinality(S) -> S] :
        /\ \A i, j \in 1..Cardinality(S) : i # j => f[i] # f[j]
        /\ \A i, j \in 1..Cardinality(S) : i < j => f[i].created_at >= f[j].created_at}

\* if (options?.limit) { sql += ' LIMIT ?' }   (a negative LIMIT is no limit)
ApplyLimit(q, limit) ==
    IF TruthyNum(limit) /\ limit.val >= 0
    THEN SubSeq(q, 1, Min2(limit.val, Len(q)))
    ELSE q

\* Faulty variant: the type condition is never appended.
TypeFilterIgnored(opts, row) == TRUE

\* if (options?.type) { ... 'type = ?' }
TypeFilter(opts, row) == TruthyStr(opts.type) => row.type = opts.type.val

NoOptions == [type |-> NullStr, limit |-> NullNum]

Memories(q) == [i \in 1..Len(q) |-> rowToMemory(q[i])]

\* The sequences search(query, options) may return on table db.
SearchResults(db, s, query, opts) ==
    {Memories(ApplyLimit(o, opts.limit)) :
        o \in OrderByCreatedDesc({r \in db :
                /\ LikeMatch(SearchPattern(query), r.content)
                /\ InScope(s, r)
                /\ TypeFilter(opts, r)})}

\* The sequences list(options) may return on table db.
ListResults(db, s, opts) ==
    {Memories(ApplyLimit(o, opts.limit)) :
        o \in OrderByCreatedDesc({r \in db : InScope(s, r) /\ TypeFilter(opts, r)})}

NullMemory == [has |-> FALSE, val |-> [id |-> 0]]

\* get(id) on table db.
GetResult(db, s, id) ==
    IF \E r \in db : r.id = id /\ InScope(s, r)
    THEN Some(rowToMemory(CHOOSE r \in db : r.id = id /\ InScope(s, r)))
    ELSE NullMemory

\* Faulty variant: the counts run over the whole table.
StatsResultUnscoped(db, s) ==
    [total     |-> Cardinality(db),
     byType    |-> [t \in {r.type : r \in db} |-> Cardinality({r \in db : r.type = t})],
     projectId |-> IF TruthyStr(s.projectId) THEN s.projectId ELSE NullStr]

\* stats() on table db.
StatsResult(db, s) ==
    LET visible == {r \in db : InScope(s, r)}
    IN  [total     |-> Cardinality(visible),
         byType    |-> [t \in {r.type : r \in visible} |->
                            Cardinality({r \in visible : r.type = t})],
         projectId |-> IF TruthyStr(s.projectId) THEN s.projectId ELSE NullStr]

Range(q) == {q[i] : i \in 1..Len(q)}

\* Faulty variant: the per-project counts are filtered like list and search.
getAllProjectsScoped(db, s) ==
    LET ids == {r.project_id.val : r \in {x \in db : x.project_id.has /\ InScope(s, x)}}
        count(p) == Cardinality({r \in db : r.project_id.has /\ r.project_id.val = p})
    IN  {f \in [1..Cardinality(ids) -> [projectId : ids, count : 1..Cardinality(db)]] :
            /\ \A i \in 1..Cardinality(ids) : f[i].count = count(f[i].projectId)
            /\ \A i, j \in 1..Cardinality(ids) : i # j => f[i].projectId # f[j].projectId
            /\ \A i, j \in 1..Cardinality(ids) : i < j => f[i].count >= f[j].count}

\* The sequences getAllProjects() may return on table db:
\* SELECT project_id, COUNT(*) ... WHERE project_id IS NOT NULL
\* GROUP BY project_id ORDER BY count DESC
getAllProjects(db, s) ==
    LET ids == {r.project_id.val : r \in {x \in db : x.project_id.has}}
        count(p) == Cardinality({r \in db : r.project_id.has /\ r.project_id.val = p})
    IN  {f \in [1..Cardinality(ids) -> [projectId : ids, count : 1..Cardinality(db)]] :
            /\ \A i \in 1..Cardinality(ids) : f[i].count = count(f[i].projectId)
            /\ \A i, j \in 1..Cardinality(ids) : i # j => f[i].projectId # f[j].projectId
            /\ \A i, j \in 1..Cardinality(ids) : i < j => f[i].count >= f[j].count}

(***************************************************************************)
(* ProjectContext (context.ts): the project resolver.  Paths, file contents *)
(* and hashed strings are texts.                                           *)
(***************************************************************************)
\* resolve('/')
root == <<"/">>

\* process.cwd()
ProcessCwd == <<"/", "R", "/", "p">>

GitName == <<".", "g", "i", "t">>
PackageJsonName == <<"p", "a", "c", "k", "a", "g", "e", ".", "j", "s", "o", "n">>
DotDot == <<".", ".">>

\* The segments of path text t between separators, from position i on.
RECURSIVE Segments(_, _, _)
Segments(t, i, cur) ==
    IF i > Len(t) THEN <<cur>>
    ELSE IF t[i] = "/" THEN <<cur>> \o Segments(t, i + 1, <<>>)
    ELSE Segments(t, i + 1, Append(cur, t[i]))

\* Empty and "." segments drop out, ".." removes the segment before it.
RECURSIVE NormalizeSegments(_, _)
NormalizeSegments(segs, acc) ==
    IF segs = <<>> THEN acc
    ELSE IF Head(segs) = <<>> \/ Head(segs) = <<".">>
         THEN NormalizeSegments(Tail(segs), acc)
    ELSE IF Head(segs) = DotDot
         THEN NormalizeSegments(Tail(segs),
                                IF acc = <<>> THEN acc ELSE SubSeq(acc, 1, Len(acc) - 1))
    ELSE NormalizeSegments(Tail(segs), Append(acc, Head(segs)))

JoinSegments(segs) ==
    IF segs = <<>> THEN root
    ELSE Concat([i \in 1..Len(segs) |-> <<"/">> \o segs[i]])

IsAbsolute(path) == path # <<>> /\ path[1] = "/"

\* path.resolve(path): the normalized absolute path, relative ones taken from
\* the working directory.
resolve(path) ==
    JoinSegments(NormalizeSegments(
        Segments(IF IsAbsolute(path) THEN path ELSE ProcessCwd \o <<"/">> \o path, 1, <<>>),
        <<>>))

\* path.resolve(from, to) with from absolute.
resolveFrom(from, to) == resolve(IF IsAbsolute(to) THEN to ELSE from \o <<"/">> \o to)

\* path.join(dir, name) of a normalized directory and a plain name.
join(dir, name) == IF dir = root THEN dir \o name ELSE dir \o <<"/">> \o name

\* The filesystem: git is the set of directories holding an entry named .git,
\* pkg gives for each directory its package.json, if any; fold tells whether
\* names are matched without regard to letter case (as on the default macOS
\* and Windows filesystems); denied is the set of directories that may not be
\* searched, so that every lookup below them fails.
NoManifest == [kind |-> "none", text |-> <<>>]
File(text) == [kind |-> "file", text |-> text]
\* An entry named package.json that cannot be read as a file (no permission,
\* a directory).
Unreadable == [kind |-> "unreadable", text |-> <<>>]

toLowerCase(t) == [i \in 1..Len(t) |-> Lower(t[i])]

\* Two spellings name the same entry of filesystem f.
SamePath(f, a, b) == IF f.fold THEN toLowerCase(a) = toLowerCase(b) ELSE a = b

\* path lies below directory d.
Under(f, d, path) ==
    /\ Len(path) > Len(d)
    /\ SamePath(f, SubSeq(path, 1, Len(d)), d)
    /\ path[Len(d) + 1] = "/"

\* The lookup of path fails with EACCES.
Denied(f, path) == \E d \in f.denied : Under(f, d, path)

\* existsSync(path): false as well where the lookup fails.
existsSync(f, path) ==
    /\ ~Denied(f, path)
    /\ \/ \E d \in f.git : SamePath(f, join(d, GitName), path)
       \/ \E d \in DOMAIN f.pkg :
             f.pkg[d].kind # "none" /\ SamePath(f, join(d, PackageJsonName), path)

\* readFileSync(path, 'utf-8'): ok is FALSE where it throws.
readFileSync(f, path) ==
    IF /\ ~Denied(f, path)
       /\ \E d \in DOMAIN f.pkg :
             f.pkg[d].kind = "file" /\ SamePath(f, join(d, PackageJsonName), path)
    THEN [ok |-> TRUE,
          text |-> f.pkg[CHOOSE d \in DOMAIN f.pkg :
                            /\ f.pkg[d].kind = "file"
                            /\ SamePath(f, join(d, PackageJsonName), path)].text]
    ELSE [ok |-> FALSE, text |-> <<>>]

\* findGitRoot(startPath): ret is the directory found or null, probed the paths
\* existsSync was asked about.
RECURSIVE findGitRootFrom(_, _, _)
findGitRootFrom(f, currentPath, probed) ==
    IF currentPath = root THEN [ret |-> NullSeq, probed |-> probed]
    ELSE LET gitPath == join(currentPath, GitName)
         IN  IF existsSync(f, gitPath)
             THEN [ret |-> Some(currentPath), probed |-> Append(probed, gitPath)]
             ELSE findGitRootFrom(f, resolveFrom(currentPath, DotDot), Append(probed, gitPath))

findGitRoot(f, startPath) == findGitRootFrom(f, resolve(startPath), <<>>)

\* findPackageJson(startPath): ret is the path of the nearest package.json or null.
RECURSIVE findPackageJsonFrom(_, _, _)
findPackageJsonFrom(f, currentPath, probed) ==
    IF currentPath = root THEN [ret |-> NullSeq, probed |-> probed]
    ELSE LET packagePath == join(currentPath, PackageJsonName)
         IN  IF existsSync(f, packagePath)
             THEN [ret |-> Some(packagePath), probed |-> Append(probed, packagePath)]
             ELSE findPackageJsonFrom(f, resolveFrom(currentPath, DotDot),
                                      Append(probed, packagePath))

findPackageJson(f, startPath) == findPackageJsonFrom(f, resolve(startPath), <<>>)

\* The characters substring(0, 16) keeps of the hexadecimal digest.
IdLength == 16

\* createHash('sha256').update(input).digest('hex').substring(0, 16): the
\* identifier stands for the digest of its input; inputs that differ are taken
\* to have digests that differ.
hashString(input) == [sha256 |-> input, length |-> IdLength]

\* .replace(/\\/g, '/')
ReplaceBackslashes(t) == [i \in 1..Len(t) |-> IF t[i] = "\\" THEN "/" ELSE t[i]]

\* Faulty variant: the path is hashed in the letter case it comes in.
hashPathCaseSensitive(path) == hashString(ReplaceBackslashes(resolve(path)))

\* hashPath(path)
hashPath(path) == hashString(ReplaceBackslashes(toLowerCase(resolve(path))))

Unknown == <<"u", "n", "k", "n", "o", "w", "n">>
NameKey == <<"n", "a", "m", "e">>

\* `${packageJson.name || 'unknown'}` for a parsed object.
NameOrUnknown(packageJson) ==
    IF \E i \in 1..Len(packageJson) : packageJson[i].k = NameKey
    THEN LET v == packageJson[CHOOSE i \in 1..Len(packageJson) :
                                  packageJson[i].k = NameKey].v
         IN  IF v.t = "str" THEN (IF v.s # <<>> THEN v.s ELSE Unknown)
             ELSE (IF v.n # 0 THEN NumToText(v.n) ELSE Unknown)
    ELSE Unknown

\* Outcome of a call: the value returned, or the exception thrown, and the
\* paths handed to existsSync and readFileSync on the way.
NoId == [sha256 |-> <<>>, length |-> 0]
Returned(id, probed) == [err |-> "none", ret |-> id, probed |-> probed]
Thrown(err, probed) == [err |-> err, ret |-> NoId, probed |-> probed]

\* detectProjectId(cwd) on filesystem f.
detectProjectId(f, cwd) ==
    LET gitRoot == findGitRoot(f, cwd)
    IN  IF gitRoot.ret.has
        THEN Returned(hashPath(gitRoot.ret.val), gitRoot.probed)
        ELSE LET packageJsonPath == findPackageJson(f, cwd)
                 probed == gitRoot.probed \o packageJsonPath.probed
             IN  IF packageJsonPath.ret.has
                 THEN LET file == readFileSync(f, packageJsonPath.ret.val)
                          packageJson == JSONParse(file.text)
                          read == Append(probed, packageJsonPath.ret.val)
                      IN  IF ~file.ok THEN Thrown("Error", read)
                          ELSE IF ~packageJson.ok THEN Thrown("SyntaxError", read)
                          ELSE Returned(hashString(NameOrUnknown(packageJson.val)
                                                   \o <<":">> \o packageJsonPath.ret.val),
                                        read)
                 ELSE Returned(hashPath(resolve(cwd)), probed)

\* A Map: the function from its keys to their values.
NoEntries == [k \in {} |-> NoId]

\* Faulty variant: a lookup that answers with an entry of whatever key.
MapGetAnyKey(map, k) ==
    IF DOMAIN map # {} THEN Some(map[CHOOSE x \in DOMAIN map : TRUE])
    ELSE [has |-> FALSE, val |-> NoId]

MapGet(map, k) == IF k \in DOMAIN map THEN Some(map[k]) ELSE [has |-> FALSE, val |-> NoId]
MapSet(map, k, v) == [x \in DOMAIN map \cup {k} |-> IF x = k THEN v ELSE map[x]]

\* if (cached): a non-empty string.
TruthyId(o) == o.has /\ o.val.length # 0

\* The rest of a call that found nothing cached, r being what detection
\* yielded: this.cache.set(cwd, projectId); return projectId.  An exception
\* of detection leaves the call before the cache is written.
CacheSet(c, cwd, r) ==
    [err |-> r.err, ret |-> r.ret, probed |-> r.probed,
     cache |-> IF r.err = "none" THEN MapSet(c, cwd, r.ret) ELSE c]

\* Faulty variant: the cache is never consulted.
getProjectIdUncached(c, f, cwd) == CacheSet(c, cwd, detectProjectId(f, cwd))

\* getProjectId(cwd) with cache c on filesystem f: the outcome and the cache
\* it leaves.
getProjectId(c, f, cwd) ==
    IF TruthyId(MapGet(c, cwd))
    THEN [err |-> "none", ret |-> MapGet(c, cwd).val, probed |-> <<>>, cache |-> c]
    ELSE CacheSet(c, cwd, detectProjectId(f, cwd))

\* clearCache()
clearCache(c) == NoEntries

UnknownProject ==
    <<"u", "n", "k", "n", "o", "w", "n", "-", "p", "r", "o", "j", "e", "c", "t">>

\* path.split(/[/\\]/).pop(): the text after the last separator of either style.
SplitPop(path) ==
    LET seps == {i \in 1..Len(path) : path[i] \in {"/", "\\"}}
    IN  IF seps = {} THEN path ELSE SubSeq(path, Max(seps) + 1, Len(path))

\* ... || 'unknown-project'
OrUnknownProject(t) == IF t # <<>> THEN t ELSE UnknownProject

\* No name: undefined.
NoName == [has |-> FALSE, val |-> Str(<<>>)]

\* if (packageJson.name): the name of a parsed object where it is truthy.
TruthyName(packageJson) ==
    IF \E i \in 1..Len(packageJson) : packageJson[i].k = NameKey
    THEN LET v == packageJson[CHOOSE i \in 1..Len(packageJson) :
                                  packageJson[i].k = NameKey].v
         IN  IF (v.t = "str" /\ v.s # <<>>) \/ (v.t = "num" /\ v.n # 0)
             THEN Some(v) ELSE NoName
    ELSE NoName

\* The try block of getProjectName: a file that cannot be read or parsed
\* throws into the empty catch and yields no name.
ParsedName(packageJson) == IF packageJson.ok THEN TruthyName(packageJson.val) ELSE NoName
DeclaredName(file) == IF file.ok THEN ParsedName(JSONParse(file.text)) ELSE NoName
ManifestName(f, packageJsonPath) ==
    IF packageJsonPath.ret.has
    THEN DeclaredName(readFileSync(f, packageJsonPath.ret.val))
    ELSE NoName

\* The returns of getProjectName in their order.
NameOrDirectory(name, gitRoot, cwd) ==
    IF name.has THEN [err |-> "none", ret |-> name.val]
    ELSE IF gitRoot.ret.has
    THEN [err |-> "none", ret |-> Str(OrUnknownProject(SplitPop(gitRoot.ret.val)))]
    ELSE [err |-> "none", ret |-> Str(OrUnknownProject(SplitPop(cwd)))]

\* getProjectName(cwd) on filesystem f.
getProjectName(f, cwd) ==
    NameOrDirectory(ManifestName(f, findPackageJson(f, cwd)), findGitRoot(f, cwd), cwd)


\* The directories of the model: /, /R and the packages /R/p and /R/q.
DirR == <<"/", "R">>
DirP == <<"/", "R", "/", "p">>
DirQ == <<"/", "R", "/", "q">>
Dirs == {root, DirR, DirP, DirQ}

\* /R/P and /R\p: the package directory in another letter case, and a
\* directory named with a backslash.
DirPUpper == <<"/", "R", "/", "P">>
DirBack == <<"/", "R", "\\", "p">>
\* /R/p/
DirPSlash == DirP \o <<"/">>

\* A filesystem with no .git entry and no package.json anywhere.
NoFiles == [git |-> {}, pkg |-> [d \in Dirs |-> NoManifest], fold |-> FALSE, denied |-> {}]

NoCall == [op |-> "init", before |-> {}]

\* The connections other processes hold on the backing file, each of an
\* instance of project "A".  pc tells where the instance is in its call, rowid
\* is the connection's last_insert_rowid(), count the result of the count
\* query of clear(), mem the memory being added; own (history) is the id the
\* INSERT of the call in progress was given.
Conns == {"c1", "c2"}
ConnStore(c) == Scoped("A")
NoMemory ==
    [projectId |-> NullStr, content |-> <<>>, type |-> "fact", source |-> "test",
     tags |-> NullSeq, metadata |-> NullSeq]
IdleConn == [pc |-> "idle", rowid |-> 0, own |-> 0, count |-> 0, mem |-> NoMemory]
NoConns == [c \in Conns |-> IdleConn]

\* The editor extension's MemoryStore before it is constructed.  init is the
\* state of initPromise, db the database held in memory (this.db, null where
\* has is FALSE), calls the methods invoked and still awaiting
\* ensureInitialized, in invocation order; invoked (history) counts the calls
\* made, closed (history) tells whether close() has returned.
NoDb == [has |-> FALSE, rows |-> {}, seq |-> 0]
NoEditor == [init |-> "none", db |-> NoDb, calls |-> <<>>, invoked |-> 0, closed |-> FALSE]

\* The task provider as constructed.  tasksPromise is the memoized promise (the
\* number of the detectTasks run it belongs to, NoPromise for undefined), runs
\* the detectTasks runs started so far; epoch (history) counts the
\* invalidations, calls (history) holds the provideTasks calls made.
NoPromise == 0
NoProvider == [tasksPromise |-> NoPromise, runs |-> <<>>, epoch |-> 0, calls |-> <<>>,
               folder |-> TRUE]

TypeOK ==
    /\ seq \in 0..MaxId
    /\ clock \in 0..MaxClock
    /\ \A r \in rows : r.id \in 1..seq /\ r.type \in Types
    /\ \A r1, r2 \in rows : r1.id = r2.id => r1 = r2
    /\ DOMAIN writer = {r.id : r \in rows}

Init ==
    /\ rows = {}
    /\ seq = 0
    /\ clock = 0
    /\ writer = <<>>
    /\ last = NoCall
    /\ issued = <<>>
    /\ fs = NoFiles
    /\ cache = NoEntries
    /\ memo = NoEntries
    /\ returned = NoEntries
    /\ conns = NoConns
    /\ editor = NoEditor
    /\ provider = NoProvider

\* CURRENT_TIMESTAMP moves on between calls.
Tick ==
    /\ clock < MaxClock
    /\ clock' = clock + 1
    /\ last' = [op |-> "tick", before |-> rows]
    /\ UNCHANGED <<rows, seq, writer, issued, resolver, apart>>

\* Faulty variant: a schema without the CHECK constraint on type.
ConstraintFailsNever(m) == FALSE

\* The INSERT fails on a constraint of the schema: type outside the CHECK list.
ConstraintFails(m) == m.type \notin Types

\* Faulty variant: the instance's identifier takes precedence over the per-call one.
AddProjectIdInstanceFirst(s, m) ==
    IF TruthyStr(s.projectId) THEN s.projectId ELSE m.projectId

\* const projectId = memory.projectId || this.projectId
AddProjectId(s, m) == IF TruthyStr(m.projectId) THEN m.projectId ELSE s.projectId

\* Faulty variant: a key without AUTOINCREMENT takes the largest stored id plus one.
NextIdRowid(db, sequence) == Max({0} \cup {r.id : r \in db}) + 1

\* id INTEGER PRIMARY KEY AUTOINCREMENT: one more than the largest id the table
\* ever held (sqlite_sequence).
NextId(db, sequence) == Max({sequence} \cup {r.id : r \in db}) + 1

\* add(memory)
Add(s, m) ==
    IF ConstraintFails(m)
    THEN /\ last' = [op |-> "add", store |-> s, mem |-> m, err |-> "SQLiteError",
                     ret |-> 0, before |-> rows]
         /\ UNCHANGED <<rows, seq, clock, writer, issued, resolver, apart>>
    ELSE LET id == NextId(rows, seq)
             row == [id         |-> id,
                     project_id |-> AddProjectId(s, m),
                     content    |-> m.content,
                     type       |-> m.type,
                     source     |-> m.source,
                     tags       |-> TagsColumn(m.tags),
                     metadata   |-> MetadataColumn(m.metadata),
                     created_at |-> clock,
                     updated_at |-> clock]
         IN  /\ seq < MaxId
             /\ rows' = rows \cup {row}
             /\ seq' = id
             /\ writer' = [i \in DOMAIN writer \cup {id} |->
                              IF i = id THEN [store |-> s, percall |-> m.projectId.has, mem |-> m]
                              ELSE writer[i]]
             /\ last' = [op |-> "add", store |-> s, mem |-> m, err |-> "none",
                         ret |-> id, before |-> rows]
             /\ issued' = Append(issued, id)
             /\ UNCHANGED <<clock, resolver, apart>>

\* get(id)
Get(s, id) ==
    /\ last' = [op |-> "get", store |-> s, id |-> id, ret |-> GetResult(rows, s, id),
                before |-> rows]
    /\ UNCHANGED <<rows, seq, clock, writer, issued, resolver, apart>>

\* search(query, options)
Search(s, query, opts) ==
    /\ \E res \in SearchResults(rows, s, query, opts) :
          last' = [op |-> "search", store |-> s, query |-> query, opts |-> opts,
                   ret |-> res, before |-> rows]
    /\ UNCHANGED <<rows, seq, clock, writer, issued, resolver, apart>>

\* list(options)
List(s, opts) ==
    /\ \E res \in ListResults(rows, s, opts) :
          last' = [op |-> "list", store |-> s, opts |-> opts, ret |-> res,
                   before |-> rows]
    /\ UNCHANGED <<rows, seq, clock, writer, issued, resolver, apart>>

\* Faulty variant: DELETE by id alone, without the project filter.
DeleteRowsUnscoped(db, s, id) == {r \in db : r.id # id}

\* Faulty variant: the row is kept and blanked by an UPDATE instead of removed.
DeleteRowsBlanked(db, s, id) ==
    {IF r.id = id /\ InScope(s, r) THEN [r EXCEPT !.content = <<>>] ELSE r : r \in db}

\* The rows DELETE FROM memories WHERE id = ? [AND project_id = ?] leaves.
DeleteRows(db, s, id) == {r \in db : ~(r.id = id /\ InScope(s, r))}

\* The value delete(id) returns.
DeleteReturn(db, s, id) == TRUE

\* delete(id)
Delete(s, id) ==
    /\ rows' = DeleteRows(rows, s, id)
    /\ writer' = [i \in {r.id : r \in rows'} |-> writer[i]]
    /\ last' = [op |-> "delete", store |-> s, id |-> id,
                ret |-> DeleteReturn(rows, s, id), err |-> "none", before |-> rows]
    /\ UNCHANGED <<seq, clock, issued, resolver, apart>>

\* Faulty variant: DELETE FROM memories without the project condition.
ClearRowsUnscoped(db, s) == {}

\* The rows DELETE FROM memories [WHERE project_id = ?] leaves.
ClearRows(db, s) == {r \in db : ~InScope(s, r)}

\* SELECT COUNT(*) FROM memories [WHERE project_id = ?]
ClearCount(db, s) == Cardinality({r \in db : InScope(s, r)})

\* clear()
Clear(s) ==
    LET count == ClearCount(rows, s)
    IN  /\ rows' = ClearRows(rows, s)
        /\ writer' = [i \in {r.id : r \in rows'} |-> writer[i]]
        /\ last' = [op |-> "clear", store |-> s, ret |-> count, before |-> rows]
        /\ UNCHANGED <<seq, clock, issued, resolver, apart>>

\* stats()
Stats(s) ==
    /\ last' = [op |-> "stats", store |-> s, ret |-> StatsResult(rows, s),
                before |-> rows]
    /\ UNCHANGED <<rows, seq, clock, writer, issued, resolver, apart>>

\* getAllProjects()
GetAllProjects(s) ==
    /\ \E res \in getAllProjects(rows, s) :
          last' = [op |-> "getAllProjects", store |-> s, ret |-> res, before |-> rows]
    /\ UNCHANGED <<rows, seq, clock, writer, issued, resolver, apart>>

\* getProjectId() of an instance.
getProjectIdOf(s) == s.projectId

(***************************************************************************)
(* Command line tool: `cortex delete <id>` on the store of the working     *)
(* directory.                                                              *)
(***************************************************************************)
\* Stands for NaN, which equals no row id.
NaN == 0 - 1

\* parseInt(text) of an unsigned decimal argument.
ParseInt(t) == IF t # <<>> /\ IsDigit(t[1]) THEN ReadDigits(t, 1, 0).val ELSE NaN

CliStore == MemoryStore([projectId |-> NullStr, globalMode |-> NullBool])

CliDelete(arg) ==
    LET id == ParseInt(arg)
        deleted == DeleteReturn(rows, CliStore, id)
    IN  /\ rows' = DeleteRows(rows, CliStore, id)
        /\ writer' = [i \in {r.id : r \in rows'} |-> writer[i]]
        /\ last' = [op |-> "cli delete", store |-> CliStore, id |-> id, arg |-> arg,
                    out |-> IF deleted THEN "deleted" ELSE "not found",
                    exit |-> IF deleted THEN 0 ELSE 1,
                    before |-> rows]
        /\ UNCHANGED <<seq, clock, issued, resolver, apart>>

\* Faulty variant: the command goes on without the flag.
ClearConfirmedAlways(options) == TRUE

\* if (!options.force) { console.log(...); process.exit(1) }
ClearConfirmed(options) == options.force

\* `cortex clear [--force]`
CliClear(options) ==
    IF ~ClearConfirmed(options)
    THEN /\ last' = [op |-> "cli clear", store |-> CliStore, options |-> options,
                     called |-> FALSE, ret |-> 0, exit |-> 1, before |-> rows]
         /\ UNCHANGED <<rows, seq, clock, writer, issued, resolver, apart>>
    ELSE /\ rows' = ClearRows(rows, CliStore)
         /\ writer' = [i \in {r.id : r \in rows'} |-> writer[i]]
         /\ last' = [op |-> "cli clear", store |-> CliStore, options |-> options,
                     called |-> TRUE, ret |-> ClearCount(rows, CliStore), exit |-> 0,
                     before |-> rows]
         /\ UNCHANGED <<seq, clock, issued, resolver, apart>>

(***************************************************************************)
(* MCP server (mcp-server.ts): the handler of tool-call requests on the    *)
(* store of the working directory.                                         *)
(***************************************************************************)
McpStore == MemoryStore([projectId |-> NullStr, globalMode |-> NullBool])

\* (args.limit as number) || 10 in cortex_search, || 20 in cortex_list
DefaultSearchLimit == 10
DefaultListLimit == 20
LimitOr(limit, default) == IF TruthyNum(limit) THEN limit ELSE Some(default)

\* `%${query}%` of an undefined query
Undefined == <<"u", "n", "d", "e", "f", "i", "n", "e", "d">>
QueryText(query) == IF query.has THEN query.val ELSE Undefined

\* The memory cortex_add hands to store.add.
ToolMemory(args) ==
    [projectId |-> NullStr, content |-> args.text.val, type |-> args.type.val,
     source |-> args.source.val, tags |-> NullSeq, metadata |-> NullSeq]

\* An undefined content, type or source is bound as NULL to a NOT NULL column.
NotNullFails(args) == ~args.text.has \/ ~args.type.has \/ ~args.source.has

\* The responses of the handler: a result, and what the catch block returns.
\* escaped is the exception that leaves the handler, if any.
Result(text, results, id) ==
    [isError |-> FALSE, text |-> text, results |-> results, id |-> id, escaped |-> "none"]

\* Faulty variant: the catch block throws the error on.
CaughtRethrown(message) ==
    [isError |-> FALSE, text |-> "", results |-> <<>>, id |-> 0, escaped |-> message]

\* catch (error) { return { content: [{ text: `Error: ${message}` }], isError: true } }
Caught(message) ==
    [isError |-> TRUE, text |-> message, results |-> <<>>, id |-> 0, escaped |-> "none"]

\* A request that reads: failed tells whether an error was thrown in the try block.
Responded(request, failed, response) ==
    /\ last' = [op |-> "callTool", request |-> request, failed |-> failed,
                response |-> response, before |-> rows]
    /\ UNCHANGED <<rows, seq, clock, writer, issued, resolver, apart>>

\* case 'cortex_add'
ToolAdd(request) ==
    IF ~request.args.has THEN Responded(request, TRUE, Caught("Missing arguments"))
    ELSE IF NotNullFails(request.args) \/ ConstraintFails(ToolMemory(request.args))
    THEN Responded(request, TRUE, Caught("SQLiteError"))
    ELSE LET m == ToolMemory(request.args)
             id == NextId(rows, seq)
             row == [id         |-> id,
                     project_id |-> AddProjectId(McpStore, m),
                     content    |-> m.content,
                     type       |-> m.type,
                     source     |-> m.source,
                     tags       |-> TagsColumn(m.tags),
                     metadata   |-> MetadataColumn(m.metadata),
                     created_at |-> clock,
                     updated_at |-> clock]
         IN  /\ seq < MaxId
             /\ rows' = rows \cup {row}
             /\ seq' = id
             /\ writer' = [i \in DOMAIN writer \cup {id} |->
                              IF i = id THEN [store |-> McpStore, percall |-> FALSE, mem |-> m]
                              ELSE writer[i]]
             /\ issued' = Append(issued, id)
             /\ last' = [op |-> "callTool", request |-> request, failed |-> FALSE,
                         response |-> Result("Memory added successfully", <<>>, id),
                         before |-> rows]
             /\ UNCHANGED <<clock, resolver, apart>>

\* case 'cortex_search'
ToolSearch(request) ==
    IF ~request.args.has THEN Responded(request, TRUE, Caught("Missing arguments"))
    ELSE \E res \in SearchResults(rows, McpStore, QueryText(request.args.text),
                                  [type  |-> request.args.type,
                                   limit |-> LimitOr(request.args.limit, DefaultSearchLimit)]) :
            Responded(request, FALSE,
                      Result(IF Len(res) > 0 THEN "Found memories"
                             ELSE "No memories found matching your query.", res, 0))

\* case 'cortex_list': args?.type, args?.limit
ToolList(request) ==
    \E res \in ListResults(rows, McpStore,
                           [type  |-> request.args.type,
                            limit |-> LimitOr(request.args.limit, DefaultListLimit)]) :
        Responded(request, FALSE,
                  Result(IF Len(res) > 0 THEN "memories" ELSE "No memories stored yet.",
                         res, 0))

\* case 'cortex_stats'
ToolStats(request) ==
    Responded(request, FALSE,
              Result("Cortex Memory Statistics", <<>>, StatsResult(rows, McpStore).total))

\* server.setRequestHandler(CallToolRequestSchema, ...): the switch inside try.
CallTool(request) ==
    IF request.name = "cortex_search" THEN ToolSearch(request)
    ELSE IF request.name = "cortex_add" THEN ToolAdd(request)
    ELSE IF request.name = "cortex_list" THEN ToolList(request)
    ELSE IF request.name = "cortex_stats" THEN ToolStats(request)
    ELSE Responded(request, TRUE, Caught("Unknown tool"))

(***************************************************************************)
(* The resolver's operations, the constructor that may call it, and the    *)
(* changes other programs make to the filesystem.                          *)
(***************************************************************************)
\* What a resolver call with outcome r leaves in the cache and the histories.
Resolved(cwd, r) ==
    /\ cache' = r.cache
    /\ memo' = IF r.err = "none"
               THEN MapSet(memo, cwd, (IF cwd \in DOMAIN memo THEN memo[cwd] ELSE {})
                                      \cup {r.ret})
               ELSE memo
    /\ returned' = IF cwd \in DOMAIN returned THEN returned
                   ELSE MapSet(returned, cwd, [err |-> r.err, ret |-> r.ret])

\* A call of getProjectId(cwd) with outcome r, as the histories record it.
Called(cwd, r) ==
    /\ Resolved(cwd, r)
    /\ last' = [op |-> "getProjectId", cwd |-> cwd, err |-> r.err, ret |-> r.ret,
                probed |-> r.probed, known |-> cwd \in DOMAIN memo,
                again |-> cwd \in DOMAIN returned, before |-> rows]
    /\ UNCHANGED <<rows, seq, clock, writer, issued, fs, apart>>

\* ProjectContext.getProjectId(cwd)
GetProjectId(cwd) == Called(cwd, getProjectId(cache, fs, cwd))

\* ProjectContext.clearCache()
ClearCache ==
    /\ cache' = clearCache(cache)
    /\ memo' = NoEntries
    /\ last' = [op |-> "clearCache", before |-> rows]
    /\ UNCHANGED <<rows, seq, clock, writer, issued, fs, returned, apart>>

\* initialize(): CREATE TABLE IF NOT EXISTS memories and CREATE INDEX IF NOT
\* EXISTS leave a table that is there, and its rows, as they are.
initialize(db) == db

\* this.globalMode ? null : (opts.projectId || ProjectContext.getProjectId()):
\* the resolver is called only where neither operand before it decides.
UsesResolver(opts) ==
    /\ ~(IF opts.globalMode.has THEN opts.globalMode.val ELSE FALSE)
    /\ ~TruthyStr(opts.projectId)

\* A construction whose call of the resolver, where it makes one, has outcome r.
Constructed(opts, r) ==
    /\ IF UsesResolver(opts)
       THEN /\ Resolved(ProcessCwd, r)
            /\ last' = [op |-> "new", opts |-> opts, err |-> r.err,
                        store |-> MemoryStore(opts), resolver |-> TRUE,
                        probed |-> r.probed, cache |-> cache, before |-> rows]
       ELSE /\ last' = [op |-> "new", opts |-> opts, err |-> "none",
                        store |-> MemoryStore(opts), resolver |-> FALSE,
                        probed |-> <<>>, cache |-> cache, before |-> rows]
            /\ UNCHANGED <<cache, memo, returned>>
    /\ rows' = IF UsesResolver(opts) /\ r.err # "none" THEN rows ELSE initialize(rows)
    /\ UNCHANGED <<seq, clock, writer, issued, fs, apart>>

\* new MemoryStore(options) in a process whose working directory is ProcessCwd.
New(opts) == Constructed(opts, getProjectId(cache, fs, ProcessCwd))

\* mkdirSync(join(dir, '.git'))
CreateMarker(dir) ==
    /\ dir \notin fs.git
    /\ fs' = [fs EXCEPT !.git = @ \cup {dir}]
    /\ last' = [op |-> "fs", before |-> rows]
    /\ UNCHANGED <<rows, seq, clock, writer, issued, cache, memo, returned, apart>>

\* rmSync(join(dir, '.git'))
RemoveMarker(dir) ==
    /\ dir \in fs.git
    /\ fs' = [fs EXCEPT !.git = @ \ {dir}]
    /\ last' = [op |-> "fs", before |-> rows]
    /\ UNCHANGED <<rows, seq, clock, writer, issued, cache, memo, returned, apart>>

\* writeFileSync(join(dir, 'package.json'), text)
WriteManifest(dir, text) ==
    /\ fs.pkg[dir] # File(text)
    /\ fs' = [fs EXCEPT !.pkg[dir] = File(text)]
    /\ last' = [op |-> "fs", before |-> rows]
    /\ UNCHANGED <<rows, seq, clock, writer, issued, cache, memo, returned, apart>>

\* rmSync(join(dir, 'package.json'))
RemoveManifest(dir) ==
    /\ fs.pkg[dir] # NoManifest
    /\ fs' = [fs EXCEPT !.pkg[dir] = NoManifest]
    /\ last' = [op |-> "fs", before |-> rows]
    /\ UNCHANGED <<rows, seq, clock, writer, issued, cache, memo, returned, apart>>

\* A call with outcome r that changes nothing, as `last` records it.
Observed(op, cwd, r) ==
    /\ last' = [op |-> op, cwd |-> cwd, err |-> r.err, ret |-> r.ret, before |-> rows]
    /\ UNCHANGED <<rows, seq, clock, writer, issued, resolver, apart>>

\* ProjectContext.getProjectName(cwd)
GetProjectName(cwd) == Observed("getProjectName", cwd, getProjectName(fs, cwd))

\* An ancestor walk with outcome r, as `last` records it.
Walked(op, startPath, r) ==
    /\ last' = [op |-> op, startPath |-> startPath, ret |-> r.ret, probed |-> r.probed,
                before |-> rows]
    /\ UNCHANGED <<rows, seq, clock, writer, issued, resolver, apart>>

\* findGitRoot(startPath) and findPackageJson(startPath)
FindGitRoot(startPath) == Walked("findGitRoot", startPath, findGitRoot(fs, startPath))
FindPackageJson(startPath) ==
    Walked("findPackageJson", startPath, findPackageJson(fs, startPath))

(***************************************************************************)
(* Inputs.                                                                 *)
(***************************************************************************)
Ids == 1..(MaxId + 1)

CliArgs == {NumToText(i) : i \in Ids} \cup {<<"x">>}

PlainMemory(pid, content, type) ==
    [projectId |-> pid, content |-> content, type |-> type, source |-> "test",
     tags |-> NullSeq, metadata |-> NullSeq]

\* Memories as the isolation scenarios add them, with and without a per-call
\* projectId, with a recognized and an unrecognized type.
ScopeInputs ==
    {PlainMemory(pid, <<"a">>, type) :
        pid \in {NullStr, Some(""), Some("B")}, type \in {"fact", "invalid-type"}}

(***************************************************************************)
(* Spec: instances of every scope share the backing file.                  *)
(***************************************************************************)
Next ==
    \/ \E s \in Stores, m \in ScopeInputs : Add(s, m)
    \/ \E s \in Stores, id \in Ids : Get(s, id)
    \/ \E s \in Stores : Search(s, <<>>, NoOptions)
    \/ \E s \in Stores : List(s, NoOptions)
    \/ \E s \in Stores, id \in Ids : Delete(s, id)
    \/ \E s \in Stores : Clear(s)
    \/ \E s \in Stores : Stats(s)
    \/ \E arg \in CliArgs : CliDelete(arg)

Spec == Init /\ [][Next]_vars

(***************************************************************************)
(* SpecRoundTrip: memories with tags and metadata are added and read back. *)
(***************************************************************************)
SeqsUpTo(S, n) == UNION {[1..k -> S] : k \in 0..n}

TagStrings == {<<"a", ",">>, <<"\\", "\"">>}
TagLists == SeqsUpTo(TagStrings, MaxTags)

MetadataMembers ==
    {Member(<<"k">>, Num(1)), Member(<<"k">>, Str(<<"a", ",">>)),
     Member(<<"j", "\"">>, Num(12))}
MetadataObjects ==
    {o \in SeqsUpTo(MetadataMembers, MaxTags) :
        \A i, j \in 1..Len(o) : i # j => o[i].k # o[j].k}

RichMemory(pid, tags, metadata) ==
    [projectId |-> pid, content |-> <<"a">>, type |-> "code", source |-> "editor",
     tags |-> tags, metadata |-> metadata]

RoundTripInputs ==
    {RichMemory(NullStr, Some(l), NullSeq) : l \in TagLists}
    \cup {RichMemory(NullStr, NullSeq, Some(o)) : o \in MetadataObjects}
    \cup {RichMemory(pid, Some(<<<<"a", ",">>, <<"\\", "\"">>>>), Some(<<Member(<<"k">>, Num(1))>>)) :
            pid \in {NullStr, Some("A"), Some("B")}}
    \cup {RichMemory(Some("B"), NullSeq, NullSeq)}

NextRoundTrip ==
    \/ \E m \in RoundTripInputs : Cardinality(rows) < MaxRichRows /\ Add(Scoped("A"), m)
    \/ \E s \in {Scoped("A"), Scoped("B")}, id \in Ids : Get(s, id)
    \/ Clear(GlobalStore)

SpecRoundTrip == Init /\ [][NextRoundTrip]_vars

(***************************************************************************)
(* SpecQuery: memories of several contents and types are added over time   *)
(* and queried with every query string, type filter and limit.             *)
(***************************************************************************)
QueryChars == {"B", "%", "_"}
Queries == SeqsUpTo(QueryChars, MaxQuery)

QueryContents == {<<"A", "b">>, <<"_">>}

QueryInputs ==
    {PlainMemory(NullStr, content, type) :
        content \in QueryContents, type \in {"fact", "note"}}

QueryOptions ==
    [type  : {NullStr, Some("fact")},
     limit : {NullNum} \cup {Some(n) : n \in 0..MaxLimit}]

QueryStores == {Scoped("A"), GlobalStore}

NextQuery ==
    \/ Tick
    \/ \E s \in QueryStores, m \in QueryInputs : Add(s, m)
    \/ \E s \in QueryStores, query \in Queries : Search(s, query, NoOptions)
    \/ \E s \in QueryStores, opts \in QueryOptions : Search(s, <<"B">>, opts)
    \/ \E s \in QueryStores, opts \in QueryOptions : List(s, opts)
    \/ \E s \in QueryStores : Clear(s)

SpecQuery == Init /\ [][NextQuery]_vars

(***************************************************************************)
(* SpecCount: instances of two projects and a global one add memories of   *)
(* two types, remove them, and take the aggregate counts.                  *)
(***************************************************************************)
CountStores == {Scoped("A"), Scoped("B"), GlobalStore}

CountInputs == {PlainMemory(NullStr, <<"a">>, type) : type \in {"fact", "decision"}}

CountOptions == [type : {NullStr, Some("fact"), Some("decision")}, limit : {NullNum}]

NextCount ==
    \/ \E s \in CountStores, m \in CountInputs : Add(s, m)
    \/ \E s \in CountStores, opts \in CountOptions : List(s, opts)
    \/ \E s \in CountStores, id \in Ids : Delete(s, id)
    \/ \E s \in CountStores : Clear(s)
    \/ \E s \in CountStores : Stats(s)
    \/ \E s \in CountStores : GetAllProjects(s)

SpecCount == Init /\ [][NextCount]_vars

(***************************************************************************)
(* SpecResolver: on each filesystem, the resolver is called for every      *)
(* start directory and its cache is cleared.                               *)
(***************************************************************************)
\* JSON.stringify({name: ...}), JSON.stringify({v: 1}), and a text JSON.parse rejects.
Named(name) == File(StringifyObject(<<Member(NameKey, Str(name))>>))
Nameless == File(StringifyObject(<<Member(<<"v">>, Num(1))>>))
Invalid == File(<<"{">>)

FileSystems ==
    {[git |-> g, pkg |-> p, fold |-> FALSE, denied |-> {}] :
        g \in SUBSET {root, DirR, DirP},
        p \in {q \in [Dirs -> {NoManifest, Named(<<"p">>), Nameless, Invalid, Unreadable}] :
                 /\ q[root] = NoManifest
                 /\ q[DirR] \in {NoManifest, Named(<<"p">>)}
                 /\ q[DirQ] \in {NoManifest, Named(<<"p">>)}}}

StartDirs == Dirs

InitResolver ==
    /\ rows = {}
    /\ seq = 0
    /\ clock = 0
    /\ writer = <<>>
    /\ last = NoCall
    /\ issued = <<>>
    /\ fs \in FileSystems
    /\ cache = NoEntries
    /\ memo = NoEntries
    /\ returned = NoEntries
    /\ conns = NoConns
    /\ editor = NoEditor
    /\ provider = NoProvider

NextResolver ==
    \/ \E cwd \in StartDirs : GetProjectId(cwd)
    \/ ClearCache

SpecResolver == InitResolver /\ [][NextResolver]_vars

(***************************************************************************)
(* SpecMemo: the resolver is called for one directory under two spellings, *)
(* directly and by constructing stores, while markers and manifests come   *)
(* and go.                                                                 *)
(***************************************************************************)
MemoDirs == {DirP, DirPSlash}

\* Constructor options: with and without projectId, with and without globalMode.
MemoOptions == {o \in Options : o.globalMode # Some(FALSE) /\ o.projectId # Some("")}

NextMemo ==
    \/ \E cwd \in MemoDirs : GetProjectId(cwd)
    \/ ClearCache
    \/ CreateMarker(DirR)
    \/ RemoveMarker(DirR)
    \/ \E text \in {Named(<<"p">>).text, Invalid.text} : WriteManifest(DirP, text)
    \/ RemoveManifest(DirP)
    \/ \E opts \in MemoOptions : New(opts)

SpecMemo == Init /\ [][NextMemo]_vars

(***************************************************************************)
(* SpecTools: tool-call requests reach the MCP server and `cortex clear`   *)
(* runs in the working directory, while a store of another project adds    *)
(* rows to the shared file, further stores are constructed, and the        *)
(* manifest of the working directory is written and removed.               *)
(***************************************************************************)
NoArguments ==
    [has |-> FALSE, text |-> NullSeq, type |-> NullStr, source |-> NullStr,
     limit |-> NullNum]

\* text is the query of cortex_search and the content of cortex_add.
Arguments(text, type, limit) ==
    [has |-> TRUE, text |-> text, type |-> type, source |-> Some("mcp"), limit |-> limit]

ToolNames == {"cortex_search", "cortex_add", "cortex_list", "cortex_stats"}

ToolRequests ==
    {[name |-> n, args |-> a] :
        n \in ToolNames \cup {"cortex_delete"},
        a \in {NoArguments} \cup
              {Arguments(text, type, limit) :
                  text \in {NullSeq, Some(<<"a">>)},
                  type \in {NullStr, Some("fact"), Some("invalid-type")},
                  limit \in {NullNum, Some(1)}}}

ClearOptions == {[force |-> b] : b \in BOOLEAN}

NextTools ==
    \/ \E request \in ToolRequests : CallTool(request)
    \/ \E options \in ClearOptions : CliClear(options)
    \/ Add(Scoped("B"), PlainMemory(NullStr, <<"a">>, "fact"))
    \/ \E opts \in MemoOptions : New(opts)
    \/ WriteManifest(DirP, Invalid.text)
    \/ RemoveManifest(DirP)

SpecTools == Init /\ [][NextTools]_vars

(***************************************************************************)
(* SpecNames: names are resolved and the ancestor walks are taken from     *)
(* every start directory, on filesystems with a marker or a manifest in    *)
(* the root directory and with a directory that may not be searched.       *)
(***************************************************************************)
NameFileSystems ==
    {[git |-> g, pkg |-> p, fold |-> FALSE, denied |-> x] :
        g \in {{}, {root}, {DirR}, {DirP}},
        p \in {q \in [Dirs -> {NoManifest, Named(<<"p">>), Named(<<"x">>), Named(<<>>),
                               Invalid, Unreadable}] :
                 /\ q[root] \in {NoManifest, Named(<<"x">>)}
                 /\ q[DirR] = NoManifest
                 /\ q[DirP] # Named(<<"x">>)
                 /\ q[DirQ] = NoManifest},
        x \in {{}, {DirP}}}

NameDirs == {root, DirR, DirP, DirPSlash}

InitNames ==
    /\ rows = {}
    /\ seq = 0
    /\ clock = 0
    /\ writer = <<>>
    /\ last = NoCall
    /\ issued = <<>>
    /\ fs \in NameFileSystems
    /\ cache = NoEntries
    /\ memo = NoEntries
    /\ returned = NoEntries
    /\ conns = NoConns
    /\ editor = NoEditor
    /\ provider = NoProvider

NextNames ==
    \/ \E cwd \in NameDirs : GetProjectName(cwd)
    \/ \E startPath \in NameDirs : FindGitRoot(startPath)
    \/ \E startPath \in NameDirs : FindPackageJson(startPath)

SpecNames == InitNames /\ [][NextNames]_vars

(***************************************************************************)
(* SpecCase: identifiers are resolved for directories whose paths differ   *)
(* in letter case and in separator style, on filesystems that match names  *)
(* with and without regard to letter case.                                 *)
(***************************************************************************)
CaseFileSystems ==
    {[git |-> g, pkg |-> [d \in Dirs |-> IF d = DirP THEN m ELSE NoManifest],
      fold |-> c, denied |-> {}] :
        g \in {{}, {DirR}, {DirP}},
        m \in {NoManifest, Named(<<"p">>)},
        c \in BOOLEAN}

CaseDirs == {DirR, DirP, DirPUpper, DirBack}

InitCase ==
    /\ rows = {}
    /\ seq = 0
    /\ clock = 0
    /\ writer = <<>>
    /\ last = NoCall
    /\ issued = <<>>
    /\ fs \in CaseFileSystems
    /\ cache = NoEntries
    /\ memo = NoEntries
    /\ returned = NoEntries
    /\ conns = NoConns
    /\ editor = NoEditor
    /\ provider = NoProvider

NextCase == \E cwd \in CaseDirs : GetProjectId(cwd)

SpecCase == InitCase /\ [][NextCase]_vars

(***************************************************************************)
(* SpecFilter: an instance of project "A" and a global one add memories of *)
(* two types, and both list and search with and without a type, a limit    *)
(* and a query.                                                            *)
(***************************************************************************)
FilterInputs ==
    {PlainMemory(NullStr, <<"A", "b">>, "fact"), PlainMemory(NullStr, <<"a">>, "note")}

FilterQueries == {<<>>, <<"A">>}

FilterOptions == [type : {NullStr, Some("note")}, limit : {NullNum, Some(1)}]

NextFilter ==
    \/ Tick
    \/ \E s \in QueryStores, m \in FilterInputs : Add(s, m)
    \/ \E s \in QueryStores, query \in FilterQueries, opts \in FilterOptions :
          Search(s, query, opts)
    \/ \E s \in QueryStores, opts \in FilterOptions : List(s, opts)

SpecFilter == Init /\ [][NextFilter]_vars

(***************************************************************************)
(* SpecCheckout: one repository is checked out at /R/p, at /R/q or at      *)
(* both, every marker being the .git of a checkout of that repository, and *)
(* identifiers are resolved in the checkouts.                              *)
(***************************************************************************)
CheckoutFileSystems ==
    {[git |-> g, pkg |-> [d \in Dirs |-> NoManifest], fold |-> FALSE, denied |-> {}] :
        g \in {{DirP}, {DirQ}, {DirP, DirQ}}}

CheckoutDirs == {DirP, DirPSlash, DirQ}

InitCheckout ==
    /\ rows = {}
    /\ seq = 0
    /\ clock = 0
    /\ writer = <<>>
    /\ last = NoCall
    /\ issued = <<>>
    /\ fs \in CheckoutFileSystems
    /\ cache = NoEntries
    /\ memo = NoEntries
    /\ returned = NoEntries
    /\ conns = NoConns
    /\ editor = NoEditor
    /\ provider = NoProvider

NextCheckout ==
    \/ \E cwd \in CheckoutDirs : GetProjectId(cwd)
    \/ ClearCache

SpecCheckout == InitCheckout /\ [][NextCheckout]_vars

(***************************************************************************)
(* The editor extension's MemoryStore (packages/vscode-extension/src/      *)
(* storage.ts): sql.js keeps the whole database in memory; initialize()    *)
(* reads the file into it and every writing method writes it back whole.   *)
(* A method is invoked (it awaits ensureInitialized) and runs later, its   *)
(* body in one piece; close() is synchronous.                              *)
(***************************************************************************)
MaxCalls == 2    \* methods invoked on the editor's store, calls of provideTasks

\* rowToMemory(columns, values) of the editor's store: no projectId.
editorRowToMemory(row) ==
    [id        |-> row.id,
     content   |-> row.content,
     type      |-> row.type,
     source    |-> row.source,
     tags      |-> ReadColumn(row.tags),
     metadata  |-> ReadColumn(row.metadata),
     createdAt |-> row.created_at,
     updatedAt |-> row.updated_at]

EditorMemories(q) == [i \in 1..Len(q) |-> editorRowToMemory(q[i])]

\* Faulty variant: list keeps to the rows without a project.
EditorListRowsOwn(db, opts) == {r \in db : ~r.project_id.has /\ TypeFilter(opts, r)}

\* SELECT * FROM memories [WHERE type = ?]
EditorListRows(db, opts) == {r \in db : TypeFilter(opts, r)}

\* SELECT * FROM memories WHERE content LIKE ? [AND type = ?]
EditorSearchRows(db, query, opts) ==
    {r \in db : LikeMatch(SearchPattern(query), r.content) /\ TypeFilter(opts, r)}

\* ... ORDER BY created_at DESC [LIMIT ?], each row through rowToMemory.
EditorOrdered(S, opts) == {EditorMemories(ApplyLimit(o, opts.limit)) : o \in OrderByCreatedDesc(S)}

\* SELECT * FROM memories WHERE id = ?
EditorGetResult(db, id) ==
    IF \E r \in db : r.id = id
    THEN Some(editorRowToMemory(CHOOSE r \in db : r.id = id))
    ELSE NullMemory

\* stats(): total and byType.
EditorStatsResult(db) ==
    [total  |-> Cardinality(db),
     byType |-> [t \in {r.type : r \in db} |-> Cardinality({r \in db : r.type = t})]]

\* INSERT INTO memories (content, type, source, tags, metadata): the table of a
\* file the core store made has the column project_id, which stays NULL.
EditorInsertRow(m, id, now) ==
    [id         |-> id,
     project_id |-> NullStr,
     content    |-> m.content,
     type       |-> m.type,
     source     |-> m.source,
     tags       |-> TagsColumn(m.tags),
     metadata   |-> MetadataColumn(m.metadata),
     created_at |-> now,
     updated_at |-> now]

\* What running a method gives: the error it rejects with or the values it may
\* resolve to, the database afterwards, and whether saveToFile() was reached.
Rejects(err, db) == [err |-> err, rets |-> {0}, db |-> db, save |-> FALSE]
Resolves(rets, db, save) == [err |-> "none", rets |-> rets, db |-> db, save |-> save]

\* delete(id): DELETE FROM memories WHERE id = ?; saveToFile(); return true
EditorDelete(db, id) ==
    Resolves({TRUE}, [db EXCEPT !.rows = {r \in db.rows : r.id # id}], TRUE)

\* add(memory)
EditorAdd(db, m, now) ==
    IF ConstraintFails(m) THEN Rejects("SQLiteError", db)
    ELSE Resolves({NextId(db.rows, db.seq)},
                  [db EXCEPT !.rows = @ \cup {EditorInsertRow(m, NextId(db.rows, db.seq), now)},
                             !.seq = NextId(db.rows, db.seq)],
                  TRUE)

\* The body of a method after `await this.ensureInitialized()`.
EditorBody(db, call, now) ==
    IF call.op = "add" THEN EditorAdd(db, call.mem, now)
    ELSE IF call.op = "get" THEN Resolves({EditorGetResult(db.rows, call.id)}, db, FALSE)
    ELSE IF call.op = "search"
    THEN Resolves(EditorOrdered(EditorSearchRows(db.rows, call.query, call.opts), call.opts),
                  db, FALSE)
    ELSE IF call.op = "list"
    THEN Resolves(EditorOrdered(EditorListRows(db.rows, call.opts), call.opts), db, FALSE)
    ELSE IF call.op = "delete" THEN EditorDelete(db, call.id)
    ELSE IF call.op = "clear"
    THEN Resolves({Cardinality(db.rows)}, [db EXCEPT !.rows = {}], TRUE)
    ELSE Resolves({EditorStatsResult(db.rows)}, db, FALSE)

\* ensureInitialized(): await this.initPromise; if (!this.db) throw
ensureInitialized(init, db) ==
    IF init = "failed" THEN "InitError"
    ELSE IF ~db.has THEN "Database not initialized"
    ELSE "none"

\* A method from ensureInitialized on.
EditorEffect(init, db, call, now) ==
    IF ensureInitialized(init, db) # "none" THEN Rejects(ensureInitialized(init, db), db)
    ELSE EditorBody(db, call, now)

\* saveToFile(): writeFileSync(this.dbPath, Buffer.from(this.db.export())): the
\* file becomes the database held in memory, whatever it held before.
saveToFile(db, file) == [rows |-> db.rows, seq |-> db.seq]

\* The database file as this module keeps it.
DbFile == [rows |-> rows, seq |-> seq]

\* History: a row the editor's store wrote into the file.
EditorWriter == [store |-> GlobalStore, percall |-> FALSE, mem |-> NoMemory]

\* The file is replaced by f.
Written(f) ==
    /\ rows' = f.rows
    /\ seq' = f.seq
    /\ writer' = [i \in {r.id : r \in f.rows} |->
                     IF i \in DOMAIN writer /\ (\E r \in rows : r.id = i) /\
                        (CHOOSE r \in rows : r.id = i) \in f.rows
                     THEN writer[i] ELSE EditorWriter]

\* constructor: this.initPromise = this.initialize()
EditorNew ==
    /\ editor.init = "none"
    /\ editor' = [editor EXCEPT !.init = "pending"]
    /\ last' = [op |-> "editor new", before |-> rows]
    /\ UNCHANGED <<rows, seq, clock, writer, issued, resolver, conns, provider>>

\* new SQL.Database(readFileSync(this.dbPath)), or an empty database where no
\* file exists (a file never written holds no row).
Loaded(file) == [has |-> TRUE, rows |-> file.rows, seq |-> file.seq]

\* initialize(), from the resolution of initSqlJs on: load, CREATE TABLE IF
\* NOT EXISTS, indexes, trigger, saveToFile().
EditorInitialized ==
    /\ editor.init = "pending"
    /\ editor' = [editor EXCEPT !.init = "done", !.db = Loaded(DbFile)]
    /\ Written(saveToFile(Loaded(DbFile), DbFile))
    /\ last' = [op |-> "editor initialized", before |-> rows]
    /\ UNCHANGED <<clock, issued, resolver, conns, provider>>

\* initialize() rejects: initSqlJs could not load the engine.
EditorInitFailed ==
    /\ editor.init = "pending"
    /\ editor' = [editor EXCEPT !.init = "failed"]
    /\ last' = [op |-> "editor failed", before |-> rows]
    /\ UNCHANGED <<rows, seq, clock, writer, issued, resolver, conns, provider>>

\* A method is invoked: it runs up to `await this.ensureInitialized()`.
EditorInvoke(call) ==
    /\ editor.init # "none"
    /\ editor.invoked < MaxCalls
    /\ editor' = [editor EXCEPT
                    !.calls = Append(@, [call |-> call, ticket |-> editor.invoked + 1,
                                         afterClose |-> editor.closed,
                                         early |-> editor.init = "pending"]),
                    !.invoked = @ + 1]
    /\ last' = [op |-> "editor invoke", before |-> rows]
    /\ UNCHANGED <<rows, seq, clock, writer, issued, resolver, conns, provider>>

\* Faulty variant: the method invoked last resumes first.
Resumed(calls) == Len(calls)

\* The awaiting methods resume in the order in which they awaited.
Resuming(calls) == 1

\* The method c resumes with outcome o, resolving to ret.
EditorRan(c, o, ret) ==
    /\ o.db.seq <= MaxId
    /\ editor' = [editor EXCEPT !.db = o.db,
                    !.calls = [i \in 1..(Len(@) - 1) |->
                                  IF i < Resuming(@) THEN @[i] ELSE @[i + 1]]]
    /\ IF o.save THEN Written(saveToFile(o.db, DbFile)) ELSE UNCHANGED <<rows, seq, writer>>
    /\ last' = [op |-> "editor", call |-> c.call, ticket |-> c.ticket,
                afterClose |-> c.afterClose, early |-> c.early, err |-> o.err, ret |-> ret,
                before |-> rows, dbBefore |-> editor.db.rows, hadDb |-> editor.db.has]
    /\ UNCHANGED <<clock, issued, resolver, conns, provider>>

\* The continuation of `await this.ensureInitialized()` and the method's body.
EditorRun ==
    /\ editor.init \in {"done", "failed"}
    /\ editor.calls # <<>>
    /\ \E ret \in EditorEffect(editor.init, editor.db,
                               editor.calls[Resuming(editor.calls)].call, clock).rets :
          EditorRan(editor.calls[Resuming(editor.calls)],
                    EditorEffect(editor.init, editor.db,
                                 editor.calls[Resuming(editor.calls)].call, clock), ret)

\* close(): this.db.close(); this.db = null
Closed(db) == NoDb

\* close(): if (this.db) { this.saveToFile(); this.db.close(); this.db = null }
EditorClose ==
    /\ editor.init # "none"
    /\ IF editor.db.has
       THEN /\ Written(saveToFile(editor.db, DbFile))
            /\ editor' = [editor EXCEPT !.db = Closed(@), !.closed = TRUE]
       ELSE /\ editor' = [editor EXCEPT !.closed = TRUE]
            /\ UNCHANGED <<rows, seq, writer>>
    /\ last' = [op |-> "editor close", hadDb |-> editor.db.has, again |-> editor.closed,
                before |-> rows, dbBefore |-> editor.db.rows]
    /\ UNCHANGED <<clock, issued, resolver, conns, provider>>

\* The memories and the calls of the runs with an editor window.
EditorMemory == PlainMemory(NullStr, <<"e">>, "note")
CoreMemory == PlainMemory(NullStr, <<"a">>, "fact")
EditorCalls ==
    {[op |-> "add", mem |-> EditorMemory],
     [op |-> "get", id |-> 1],
     [op |-> "search", query |-> <<>>, opts |-> NoOptions],
     [op |-> "list", opts |-> NoOptions],
     [op |-> "delete", id |-> 1],
     [op |-> "clear"],
     [op |-> "stats"]}

\* One editor window and one core store of project "A" on the same file.
NextEditor ==
    \/ EditorNew
    \/ EditorInitialized
    \/ EditorInitFailed
    \/ \E call \in EditorCalls : EditorInvoke(call)
    \/ EditorRun
    \/ EditorClose
    \/ Add(Scoped("A"), CoreMemory)

SpecEditor == Init /\ [][NextEditor]_vars

(***************************************************************************)
(* CortexTaskProvider (packages/vscode-extension/src/taskProvider.ts):     *)
(* provideTasks memoizes the promise of detectTasks, and the events of the *)
(* file watcher drop it.  A detectTasks run resolves later, and each       *)
(* caller receives its tasks later still.                                  *)
(***************************************************************************)
MaxEvents == 2    \* events of the file watcher

\* The events the watcher is subscribed to.
WatcherEvents == {"change", "create", "delete"}

\* The tools a scan may find.
ScanResults == {<<>>, <<"test">>}

\* Faulty variant: the memoized promise outlives the event.
invalidateCacheKept(p) == p

\* invalidateCache(): this.tasksPromise = undefined
invalidateCache(p) == [p EXCEPT !.tasksPromise = NoPromise]

\* onDidChange / onDidCreate / onDidDelete: () => this.invalidateCache()
WatcherEvent(kind) ==
    /\ provider.epoch < MaxEvents
    /\ provider' = [invalidateCache(provider) EXCEPT !.epoch = @ + 1]
    /\ last' = [op |-> "watcher", kind |-> kind, before |-> rows]
    /\ UNCHANGED <<rows, seq, clock, writer, issued, resolver, conns, editor>>

\* detectTasks() up to its await: without a workspace folder it returns the
\* empty list at once, otherwise it waits for scanner.scan().
detectTasks(p) ==
    IF p.folder
    THEN [epoch |-> p.epoch, state |-> "scanning", tasks |-> <<>>]
    ELSE [epoch |-> p.epoch, state |-> "resolved", tasks |-> <<>>]

\* The provider after a provideTasks call:
\* if (!this.tasksPromise) this.tasksPromise = this.detectTasks()
Memoized(p) ==
    IF p.tasksPromise = NoPromise
    THEN [p EXCEPT !.runs = Append(@, detectTasks(p)), !.tasksPromise = Len(p.runs) + 1]
    ELSE p

\* provideTasks(): ...; return this.tasksPromise
ProvideTasks ==
    /\ Len(provider.calls) < MaxCalls
    /\ provider' = [Memoized(provider) EXCEPT
                      !.calls = Append(@, [promise |-> Memoized(provider).tasksPromise,
                                           epoch |-> provider.epoch,
                                           received |-> FALSE])]
    /\ last' = [op |-> "provideTasks", ret |-> Memoized(provider).tasksPromise,
                started |-> provider.tasksPromise = NoPromise, before |-> rows]
    /\ UNCHANGED <<rows, seq, clock, writer, issued, resolver, conns, editor>>

\* detectTasks() from the resolution of scanner.scan() on: one task per tool.
ScanDone(i, tools) ==
    /\ provider.runs[i].state = "scanning"
    /\ provider' = [provider EXCEPT !.runs[i] = [@ EXCEPT !.state = "resolved",
                                                          !.tasks = tools]]
    /\ last' = [op |-> "scanned", run |-> i, before |-> rows]
    /\ UNCHANGED <<rows, seq, clock, writer, issued, resolver, conns, editor>>

\* The caller of the c-th provideTasks call receives the tasks of its promise.
Received(c) ==
    /\ ~provider.calls[c].received
    /\ provider.runs[provider.calls[c].promise].state = "resolved"
    /\ provider' = [provider EXCEPT !.calls[c].received = TRUE]
    /\ last' = [op |-> "received", call |-> c,
                tasks |-> provider.runs[provider.calls[c].promise].tasks, before |-> rows]
    /\ UNCHANGED <<rows, seq, clock, writer, issued, resolver, conns, editor>>

\* A window with or without a workspace folder.
InitTasks ==
    /\ rows = {}
    /\ seq = 0
    /\ clock = 0
    /\ writer = <<>>
    /\ last = NoCall
    /\ issued = <<>>
    /\ fs = NoFiles
    /\ cache = NoEntries
    /\ memo = NoEntries
    /\ returned = NoEntries
    /\ conns = NoConns
    /\ editor = NoEditor
    /\ \E folder \in BOOLEAN : provider = [NoProvider EXCEPT !.folder = folder]

NextTasks ==
    \/ \E kind \in WatcherEvents : WatcherEvent(kind)
    \/ ProvideTasks
    \/ \E i \in 1..Len(provider.runs), tools \in ScanResults : ScanDone(i, tools)
    \/ \E c \in 1..Len(provider.calls) : Received(c)

SpecTasks == InitTasks /\ [][NextTasks]_vars

(***************************************************************************)
(* SpecInterleave: two instances of project "A" in two processes run add,  *)
(* delete and clear on the shared file, statement by statement: the INSERT *)
(* of add and its SELECT last_insert_rowid(), the count query of clear and *)
(* its DELETE are separate steps, between which the other instance runs.   *)
(***************************************************************************)
\* Faulty variant: the id is read from the table as a whole (the largest key
\* handed out), as SELECT seq FROM sqlite_sequence would give it.
LastInsertRowidOfTable(cs, sequence, c) == sequence

\* SELECT last_insert_rowid(): the rowid of the last INSERT on this connection.
LastInsertRowid(cs, sequence, c) == cs[c].rowid

\* add, first statement: stmt.run(...)
AddInsert(c, m) ==
    /\ conns[c].pc = "idle"
    /\ IF ConstraintFails(m)
       THEN /\ last' = [op |-> "add", conn |-> c, store |-> ConnStore(c), mem |-> m,
                        err |-> "SQLiteError", ret |-> 0, own |-> 0, before |-> rows]
            /\ UNCHANGED <<rows, seq, writer, conns>>
       ELSE LET id == NextId(rows, seq)
                row == [id         |-> id,
                        project_id |-> AddProjectId(ConnStore(c), m),
                        content    |-> m.content,
                        type       |-> m.type,
                        source     |-> m.source,
                        tags       |-> TagsColumn(m.tags),
                        metadata   |-> MetadataColumn(m.metadata),
                        created_at |-> clock,
                        updated_at |-> clock]
            IN  /\ seq < MaxId
                /\ rows' = rows \cup {row}
                /\ seq' = id
                /\ writer' = [i \in DOMAIN writer \cup {id} |->
                                 IF i = id
                                 THEN [store |-> ConnStore(c), percall |-> m.projectId.has,
                                       mem |-> m]
                                 ELSE writer[i]]
                /\ conns' = [conns EXCEPT ![c] = [@ EXCEPT !.pc = "inserted", !.rowid = id,
                                                           !.own = id, !.mem = m]]
                /\ last' = [op |-> "insert", conn |-> c, before |-> rows]
    /\ UNCHANGED <<clock, issued, resolver, editor, provider>>

\* add, second statement: SELECT last_insert_rowid() as id; return result.id
AddReturn(c) ==
    /\ conns[c].pc = "inserted"
    /\ last' = [op |-> "add", conn |-> c, store |-> ConnStore(c), mem |-> conns[c].mem,
                err |-> "none", ret |-> LastInsertRowid(conns, seq, c),
                own |-> conns[c].own, before |-> rows]
    /\ issued' = Append(issued, LastInsertRowid(conns, seq, c))
    /\ conns' = [conns EXCEPT ![c] = [@ EXCEPT !.pc = "idle"]]
    /\ UNCHANGED <<rows, seq, clock, writer, resolver, editor, provider>>

\* clear, first statement: SELECT COUNT(*) as count FROM memories [WHERE project_id = ?]
ClearCounted(c) ==
    /\ conns[c].pc = "idle"
    /\ conns' = [conns EXCEPT ![c] = [@ EXCEPT !.pc = "counted",
                                               !.count = ClearCount(rows, ConnStore(c))]]
    /\ last' = [op |-> "count", conn |-> c, before |-> rows]
    /\ UNCHANGED <<rows, seq, clock, writer, issued, resolver, editor, provider>>

\* clear, second statement: this.db.run(deleteSql, params); return count
ClearDeleted(c) ==
    /\ conns[c].pc = "counted"
    /\ rows' = ClearRows(rows, ConnStore(c))
    /\ writer' = [i \in {r.id : r \in rows'} |-> writer[i]]
    /\ last' = [op |-> "clear", conn |-> c, store |-> ConnStore(c), ret |-> conns[c].count,
                before |-> rows]
    /\ conns' = [conns EXCEPT ![c] = [@ EXCEPT !.pc = "idle"]]
    /\ UNCHANGED <<seq, clock, issued, resolver, editor, provider>>

\* delete(id): one statement.
ConnDelete(c, id) ==
    /\ conns[c].pc = "idle"
    /\ rows' = DeleteRows(rows, ConnStore(c), id)
    /\ writer' = [i \in {r.id : r \in rows'} |-> writer[i]]
    /\ last' = [op |-> "delete", conn |-> c, store |-> ConnStore(c), id |-> id,
                ret |-> DeleteReturn(rows, ConnStore(c), id), err |-> "none",
                before |-> rows]
    /\ UNCHANGED <<seq, clock, issued, resolver, conns, editor, provider>>

\* Each instance adds memories of its own content.
ConnInputs(c) ==
    {PlainMemory(NullStr, IF c = "c1" THEN <<"a">> ELSE <<"b">>, type) :
        type \in {"fact", "invalid-type"}}

NextInterleave ==
    \/ \E c \in Conns : \E m \in ConnInputs(c) : AddInsert(c, m)
    \/ \E c \in Conns : AddReturn(c)
    \/ \E c \in Conns : ClearCounted(c)
    \/ \E c \in Conns : ClearDeleted(c)
    \/ \E c \in Conns, id \in Ids : ConnDelete(c, id)

SpecInterleave == Init /\ [][NextInterleave]_vars

(***************************************************************************)
(* Properties.                                                             *)
(***************************************************************************)
RowOf(db, id) == CHOOSE r \in db : r.id = id
Ret(q) == {q[i].id : i \in 1..Len(q)}
AllScoped == {Scoped(p) : p \in ProjectIds}
ListSet(db, s) == UNION {Range(res) : res \in ListResults(db, s, NoOptions)}
SearchSet(db, s, query) == UNION {Range(res) : res \in SearchResults(db, s, query, NoOptions)}

\* C1 (isolation): a memory added, without a per-call projectId, by an instance
\* of project p1 is never returned by get, search or list, nor counted by stats,
\* of a non-global instance of another project p2.
IsolationC1 ==
    /\ \A id \in DOMAIN writer :
          LET w == writer[id]
          IN  (~w.percall /\ ~w.store.globalMode) =>
                 \A s2 \in AllScoped :
                    s2.projectId # w.store.projectId =>
                       /\ ~GetResult(rows, s2, id).has
                       /\ id \notin {m.id : m \in ListSet(rows, s2)}
                       /\ id \notin {m.id : m \in SearchSet(rows, s2, <<>>)}
                       /\ StatsResult(rows, s2) = StatsResult(rows \ {RowOf(rows, id)}, s2)
    /\ (last.op \in {"list", "search"} /\ ~last.store.globalMode) =>
          \A id \in Ret(last.ret) :
             (~writer[id].percall /\ ~writer[id].store.globalMode)
                 => writer[id].store.projectId = last.store.projectId
    /\ (last.op = "get" /\ ~last.store.globalMode /\ last.ret.has) =>
          ((~writer[last.id].percall /\ ~writer[last.id].store.globalMode)
                 => writer[last.id].store.projectId = last.store.projectId)

\* Project A added a memory, and a list under the resolver's project returned
\* that project's own memory without it.
IsolationC1Witness ==
    /\ last.op = "list"
    /\ last.store = Scoped(CwdProjectId)
    /\ Len(last.ret) = 1
    /\ \E id \in DOMAIN writer :
          /\ writer[id].store = Scoped("A")
          /\ ~writer[id].percall
          /\ id \notin Ret(last.ret)

PresentProjects == {r.project_id.val : r \in {x \in rows : x.project_id.has}}

\* C2 as stated (global superset): list() in global mode is exactly the union of
\* list() under every project identifier present in the store.
GlobalSupersetC2 ==
    ListSet(rows, GlobalStore) = UNION {ListSet(rows, Scoped(p)) : p \in PresentProjects}

\* C2, amended: list() in global mode is exactly the union of list() under every
\* project identifier present in the store together with the memories that
\* carry no project identifier (those added in global mode).
GlobalSupersetAmendedC2 ==
    /\ ListSet(rows, GlobalStore) =
          UNION {ListSet(rows, Scoped(p)) : p \in PresentProjects}
          \cup {rowToMemory(r) : r \in {x \in rows : ~x.project_id.has}}
    /\ (last.op = "list" /\ last.store.globalMode) =>
          Range(last.ret) =
             UNION {ListSet(rows, Scoped(p)) : p \in PresentProjects}
             \cup {rowToMemory(r) : r \in {x \in rows : ~x.project_id.has}}

\* A global list returned a memory of a project and a memory without project.
GlobalSupersetC2Witness ==
    /\ last.op = "list"
    /\ last.store.globalMode
    /\ \E i, j \in 1..Len(last.ret) : last.ret[i].projectId.has /\ ~last.ret[j].projectId.has

PerCallOverrideC5 ==
    (last.op = "add" /\ last.err = "none") =>
        LET m == last.mem
            s == last.store
            r == RowOf(rows, last.ret)
        IN  /\ TruthyStr(m.projectId) =>
                 /\ r.project_id = m.projectId
                 /\ GetResult(rows, Scoped(m.projectId.val), r.id).has
                 /\ rowToMemory(r) \in ListSet(rows, Scoped(m.projectId.val))
                 /\ (~s.globalMode /\ s.projectId # m.projectId) =>
                       /\ ~GetResult(rows, s, r.id).has
                       /\ rowToMemory(r) \notin ListSet(rows, s)
            /\ ~TruthyStr(m.projectId) =>
                 /\ r.project_id = s.projectId
                 /\ s.globalMode => ~r.project_id.has

\* The instance pinned to A added a memory for B.
PerCallOverrideC5Witness ==
    /\ last.op = "add"
    /\ last.err = "none"
    /\ last.store = Scoped("A")
    /\ last.mem.projectId = Some("B")

\* C9 (delete): on a non-global instance delete(id) removes the row with that
\* id exactly when it exists and carries the instance's project id, and then
\* get(id) is absent for every instance; otherwise it does not raise and
\* leaves every row; no other row is ever removed or changed.
DeleteC9 ==
    (last.op = "delete" /\ ~last.store.globalMode) =>
        LET hit == \E r \in last.before :
                      r.id = last.id /\ r.project_id = last.store.projectId
        IN  /\ last.err = "none"
            /\ hit => /\ rows = {r \in last.before : r.id # last.id}
                      /\ rows # last.before
                      /\ \A s \in Stores \cup AllScoped : ~GetResult(rows, s, last.id).has
            /\ ~hit => rows = last.before
            /\ rows \subseteq last.before
            /\ \A r \in last.before \ rows : r.id = last.id

\* The instance of project A deleted its own memory; a memory of another
\* scope stays.
DeleteC9Witness ==
    /\ last.op = "delete"
    /\ last.store = Scoped("A")
    /\ rows # last.before
    /\ rows # {}

\* C10 as stated (not found as false): delete(id) returns true exactly when it
\* removed a row, and `cortex delete <id>` of an id that is not visible in the
\* scope reports not found with a non-zero exit code.
DeleteReturnC10 ==
    /\ last.op = "delete" => (last.ret = TRUE <=> rows # last.before)
    /\ (last.op = "cli delete" /\ ~GetResult(last.before, last.store, last.id).has) =>
          last.out = "not found" /\ last.exit # 0

\* Deep equality of two optional objects: the same members, whatever their order.
DeepEqualObject(a, b) ==
    a.has = b.has /\ Len(a.val) = Len(b.val) /\ Range(a.val) = Range(b.val)

RoundTrips(id, s) ==
    LET g == GetResult(rows, s, id)
    IN  /\ g.has
        /\ ColumnParses(RowOf(rows, id).tags)
        /\ ColumnParses(RowOf(rows, id).metadata)
        /\ g.val.tags = writer[id].mem.tags
        /\ DeepEqualObject(g.val.metadata, writer[id].mem.metadata)

\* C4 as stated (round trip): for every memory m added through a non-global
\* instance, get(add(m)) returns tags and metadata deep-equal to those supplied;
\* absent reads back as absent, empty as empty.
RoundTripC4 ==
    \A id \in DOMAIN writer :
        ~writer[id].store.globalMode => RoundTrips(id, writer[id].store)

\* C4, amended: the same for every memory m added through a non-global instance
\* without a per-call projectId that names another project (get of the adding
\* instance does not find a memory it wrote for another project).
RoundTripAmendedC4 ==
    /\ \A id \in DOMAIN writer :
          LET w == writer[id]
          IN  (~w.store.globalMode
                 /\ (TruthyStr(w.mem.projectId) => w.mem.projectId = w.store.projectId))
              => RoundTrips(id, w.store)
    /\ (last.op = "get" /\ last.ret.has) =>
          /\ last.ret.val.tags = writer[last.id].mem.tags
          /\ DeepEqualObject(last.ret.val.metadata, writer[last.id].mem.metadata)

\* get returned a memory that was added with an empty tags list and no metadata.
RoundTripC4Witness ==
    /\ last.op = "get"
    /\ ~last.store.globalMode
    /\ last.ret.has
    /\ last.ret.val.tags = Some(<<>>)
    /\ last.ret.val.metadata = NullSeq

\* text contains query as a substring, letters compared without regard to case.
Contains(text, query) ==
    \E k \in 0..(Len(text) - Len(query)) :
        \A j \in 1..Len(query) : Lower(text[k + j]) = Lower(query[j])

\* C6 (search semantics): for every query, wildcard characters included,
\* search(q) returns exactly the memories in scope whose content contains q as
\* a case-insensitive substring; the empty query returns every memory in scope.
SearchSemanticsC6 ==
    (last.op = "search" /\ last.opts = NoOptions) =>
        Range(last.ret) =
            {rowToMemory(r) : r \in {x \in rows :
                InScope(last.store, x) /\ Contains(x.content, last.query)}}

\* C7 (ordering): list and search return the memories newest first: of any two
\* memories in a result the one added later (the larger id) comes first, also
\* when both were added within the same second.
OrderingC7 ==
    last.op \in {"list", "search"} =>
        \A i, j \in 1..Len(last.ret) : i < j => last.ret[i].id > last.ret[j].id

\* The options without their limit.
Unlimited(opts) == [type |-> opts.type, limit |-> NullNum]

\* C8 (limit): for every limit n >= 0 the result holds exactly min(n, matching)
\* memories, the first n of an unlimited result; limit 0 yields nothing.
LimitC8 ==
    (last.op \in {"list", "search"} /\ last.opts.limit.has /\ last.opts.limit.val >= 0) =>
        LET n == last.opts.limit.val
            full == IF last.op = "list"
                    THEN ListResults(rows, last.store, Unlimited(last.opts))
                    ELSE SearchResults(rows, last.store, last.query, Unlimited(last.opts))
        IN  \E u \in full :
               /\ Len(last.ret) = Min2(n, Len(u))
               /\ last.ret = SubSeq(u, 1, Min2(n, Len(u)))

\* C11 (clear scoping): clear() of an instance returns the number of memories
\* its list() returned on the rows just before, leaves its own list() empty and
\* leaves every row outside its scope (rows of other projects, rows without a
\* project id) unchanged; in global mode no row is left.
ClearScopingC11 ==
    last.op = "clear" =>
        /\ \A res \in ListResults(last.before, last.store, NoOptions) :
              Len(res) = last.ret
        /\ ListResults(rows, last.store, NoOptions) = {<<>>}
        /\ \A r \in last.before :
              (~last.store.globalMode /\
                  (~r.project_id.has \/ r.project_id.val # last.store.projectId.val))
                  => r \in rows
        /\ rows \subseteq last.before
        /\ last.store.globalMode => rows = {}

\* An instance of project A cleared its memories while a row of project B
\* was stored.
ClearScopingC11Witness ==
    /\ last.op = "clear"
    /\ last.store = Scoped("A")
    /\ last.ret >= 1
    /\ \E r \in rows : r.project_id.has /\ r.project_id.val = "B"

RECURSIVE SumOf(_)
SumOf(f) ==
    IF DOMAIN f = {} THEN 0
    ELSE LET t == CHOOSE x \in DOMAIN f : TRUE
         IN  f[t] + SumOf([x \in DOMAIN f \ {t} |-> f[x]])

OfType(t) == [type |-> Some(t), limit |-> NullNum]

\* C12 (stats consistency): in every state, for every instance, stats().total
\* is the number of memories list() returns, byType has an entry exactly for
\* the types list() shows and byType[t] is the number list({type: t}) returns,
\* total is the sum of the byType counts, and a non-global instance counts
\* only rows of its own project.
StatsConsistencyC12 ==
    \A s \in CountStores \cup Stores :
        LET st == StatsResult(rows, s)
        IN  /\ \A res \in ListResults(rows, s, NoOptions) :
                  /\ Len(res) = st.total
                  /\ DOMAIN st.byType = {res[i].type : i \in 1..Len(res)}
            /\ \A t \in DOMAIN st.byType :
                  \A res \in ListResults(rows, s, OfType(t)) : Len(res) = st.byType[t]
            /\ st.total = SumOf(st.byType)
            /\ ~s.globalMode =>
                  st.total = Cardinality({r \in rows :
                      r.project_id.has /\ r.project_id.val = s.projectId.val})
            /\ (last.op = "stats" /\ last.store = s) => last.ret = st

\* stats() of project A counted its two memories, one of each type.
StatsConsistencyC12Witness ==
    /\ last.op = "stats"
    /\ last.store = Scoped("A")
    /\ last.ret.total = 2
    /\ DOMAIN last.ret.byType = {"fact", "decision"}

\* C13 (listAllProjects): getAllProjects() of any instance returns exactly one
\* entry for each project identifier carried by at least one row, its count
\* being the number of rows that carry it; every instance, whatever its
\* scope, gets the same answer.
AllProjectsC13 ==
    last.op = "getAllProjects" =>
        LET ids == {r.project_id.val : r \in {x \in rows : x.project_id.has}}
        IN  /\ {last.ret[i].projectId : i \in 1..Len(last.ret)} = ids
            /\ Len(last.ret) = Cardinality(ids)
            /\ \A i \in 1..Len(last.ret) :
                  last.ret[i].count =
                      Cardinality({r \in rows : r.project_id = Some(last.ret[i].projectId)})
            /\ \A s2 \in CountStores \cup Stores : last.ret \in getAllProjects(rows, s2)

\* The instance of project A was told of the projects A and B.
AllProjectsC13Witness ==
    /\ last.op = "getAllProjects"
    /\ last.store = Scoped("A")
    /\ {last.ret[i].projectId : i \in 1..Len(last.ret)} = {"A", "B"}

\* A table with one row of project A, one of project B and one without project.
SampleTable ==
    {[id |-> i, project_id |-> (<<Some("A"), Some("B"), NullStr>>)[i], content |-> <<"a">>,
      type |-> "fact", source |-> "test", tags |-> NullSeq, metadata |-> NullSeq,
      created_at |-> 0, updated_at |-> 0] : i \in 1..3}

\* C14 (scope selection): an instance constructed with globalMode true is
\* global even when a projectId option is given too: getProjectId() is null,
\* stats().projectId is absent, get and list filter nothing, an add without
\* per-call projectId stores no identifier.  An instance constructed with a
\* non-empty projectId and without globalMode uses exactly that identifier,
\* and its construction makes no resolver call: nothing is probed and the
\* resolver's cache is as before.
ScopeSelectionC14 ==
    last.op = "new" =>
        LET s == last.store
        IN  /\ last.opts.globalMode = Some(TRUE) =>
                  /\ last.err = "none"
                  /\ s.globalMode
                  /\ getProjectIdOf(s) = NullStr
                  /\ ~StatsResult(SampleTable, s).projectId.has
                  /\ StatsResult(SampleTable, s).total = Cardinality(SampleTable)
                  /\ \A res \in ListResults(SampleTable, s, NoOptions) :
                        Len(res) = Cardinality(SampleTable)
                  /\ \A r \in SampleTable : GetResult(SampleTable, s, r.id).has
                  /\ \A m \in ScopeInputs :
                        ~TruthyStr(m.projectId) => ~AddProjectId(s, m).has
            /\ (TruthyStr(last.opts.projectId) /\ last.opts.globalMode # Some(TRUE)) =>
                  /\ last.err = "none"
                  /\ ~s.globalMode
                  /\ getProjectIdOf(s) = last.opts.projectId
                  /\ ~last.resolver
                  /\ last.probed = <<>>
                  /\ cache = last.cache

\* A store was constructed with both globalMode true and projectId "A".
ScopeSelectionC14Witness ==
    /\ last.op = "new"
    /\ last.opts = [projectId |-> Some("A"), globalMode |-> Some(TRUE)]
    /\ last.store.globalMode

\* C15 (identifier uniqueness): the ids successful add calls returned, taken
\* in call order over all instances and whatever was deleted or cleared in
\* between, are positive and strictly increasing (hence pairwise distinct and
\* never handed out twice); every stored row carries one of them.
IdentifierUniquenessC15 ==
    /\ \A i \in 1..Len(issued) : issued[i] > 0
    /\ \A i, j \in 1..Len(issued) : i < j => issued[i] < issued[j]
    /\ \A r \in rows : \E i \in 1..Len(issued) : issued[i] = r.id
    /\ (last.op = "add" /\ last.err = "none") =>
          /\ issued # <<>>
          /\ last.ret = issued[Len(issued)]
          /\ \A r \in last.before : r.id # last.ret

\* An add by the instance of project B returned its id after the row with the
\* largest id so far, added by project A, had been removed, the table being
\* empty at the time of the add.
IdentifierUniquenessC15Witness ==
    /\ last.op = "add"
    /\ last.err = "none"
    /\ last.store = Scoped("B")
    /\ last.before = {}
    /\ Len(issued) = 2

MemoizationC17 ==
    /\ \A d \in DOMAIN memo : Cardinality(memo[d]) = 1
    /\ last.op = "getProjectId" =>
          /\ last.known =>
                /\ last.err = "none"
                /\ last.probed = <<>>
                /\ memo[last.cwd] = {last.ret}
          /\ ~last.known =>
                LET r == detectProjectId(fs, last.cwd)
                IN  /\ last.err = r.err
                    /\ last.ret = r.ret
                    /\ last.probed = r.probed
                    /\ last.probed # <<>>

\* A repeated call returned the memoized identifier although detection on the
\* filesystem as it is now yields another one.
MemoizationC17Witness ==
    /\ last.op = "getProjectId"
    /\ last.known
    /\ detectProjectId(fs, last.cwd).err = "none"
    /\ detectProjectId(fs, last.cwd).ret # last.ret

\* The directory and its ancestors, up to and including the filesystem root.
AncestorsOrSelf(dir) ==
    LET segs == NormalizeSegments(Segments(dir, 1, <<>>), <<>>)
    IN  {JoinSegments(SubSeq(segs, 1, k)) : k \in 0..Len(segs)}

\* The member of a non-empty set of ancestors-or-self nearest to the directory.
Nearest(S) == CHOOSE x \in S : \A y \in S : Len(y) <= Len(x)

MarkerDirs(f, dir) == AncestorsOrSelf(dir) \cap f.git
ManifestDirs(f, dir) == {a \in AncestorsOrSelf(dir) : f.pkg[a].kind # "none"}

\* C18 (strategy priority): whenever the start directory or one of its
\* ancestors holds the .git marker, getProjectId returns the hash of the
\* nearest such directory, whatever package.json files there are.
StrategyPriorityC18 ==
    (last.op = "getProjectId" /\ MarkerDirs(fs, resolve(last.cwd)) # {}) =>
        /\ last.err = "none"
        /\ last.ret = hashPath(Nearest(MarkerDirs(fs, resolve(last.cwd))))

\* C19 (nearest-marker stability): where R is the nearest ancestor-or-self of
\* d holding the .git marker, calls for d and for R have the same outcome; and
\* where no ancestor-or-self holds the marker and M is the nearest one holding
\* a package.json, calls for d and for M have the same outcome.
NearestMarkerC19 ==
    \A d \in DOMAIN returned :
        LET markers == MarkerDirs(fs, resolve(d))
            manifests == ManifestDirs(fs, resolve(d))
        IN  /\ (markers # {} /\ Nearest(markers) \in DOMAIN returned) =>
                  returned[d] = returned[Nearest(markers)]
            /\ (markers = {} /\ manifests # {} /\ Nearest(manifests) \in DOMAIN returned) =>
                  returned[d] = returned[Nearest(manifests)]

\* C20 (the resolver never raises): every call of getProjectId returns an
\* identifier, also where no .git marker is found and the nearest package.json
\* cannot be read or parsed.
NeverRaisesC20 ==
    last.op = "getProjectId" =>
        /\ last.err = "none"
        /\ last.ret.length = 16

\* The canonical form of a path: lower-cased, with separators of one style.
Canonical(t) == ReplaceBackslashes(toLowerCase(t))

\* The strategy that decides the resolution for cwd on filesystem f, and the
\* path it decides on: the directory holding .git, the path of package.json,
\* or the start directory.
Decision(f, cwd) ==
    IF findGitRoot(f, cwd).ret.has
    THEN [strategy |-> "git", path |-> findGitRoot(f, cwd).ret.val]
    ELSE IF findPackageJson(f, cwd).ret.has
    THEN [strategy |-> "manifest", path |-> findPackageJson(f, cwd).ret.val]
    ELSE [strategy |-> "directory", path |-> resolve(cwd)]

\* C21 (normalization): in each of the three strategies the path that enters
\* the hash is lower-cased and has its separators unified, so two resolutions
\* decided by the same strategy on paths that differ only in letter case or in
\* separator style yield the same identifier.
NormalizationC21 ==
    \A c1, c2 \in DOMAIN cache :
        (/\ Decision(fs, c1).strategy = Decision(fs, c2).strategy
         /\ Canonical(Decision(fs, c1).path) = Canonical(Decision(fs, c2).path)) =>
            cache[c1] = cache[c2]

\* The name the manifest of directory m declares on f, where the file can be
\* read and parsed and the name is not empty.
NameDeclared(f, m) ==
    IF f.pkg[m].kind = "file" /\ JSONParse(f.pkg[m].text).ok
    THEN TruthyName(JSONParse(f.pkg[m].text).val)
    ELSE NoName

\* The name of the project of directory d on f: the name the nearest manifest
\* declares, else the base name of the nearest directory holding .git, else
\* the base name of d, the nearest being sought among d and all its ancestors.
NameOfProject(f, d) ==
    LET manifests == ManifestDirs(f, resolve(d))
        markers == MarkerDirs(f, resolve(d))
    IN  IF manifests # {} /\ NameDeclared(f, Nearest(manifests)).has
        THEN NameDeclared(f, Nearest(manifests)).val
        ELSE IF markers # {}
        THEN Str(OrUnknownProject(SplitPop(Nearest(markers))))
        ELSE Str(OrUnknownProject(SplitPop(d)))

\* C22 (project name): getProjectName(d) never throws and returns the name
\* the nearest package manifest declares if it is readable and the name is not
\* empty, otherwise the base name of the nearest version-control root,
\* otherwise the base name of d, and 'unknown-project' where the chosen base
\* name is empty (every directory can be searched).
ProjectNameC22 ==
    (last.op = "getProjectName" /\ fs.denied = {}) =>
        /\ last.err = "none"
        /\ last.ret = NameOfProject(fs, last.cwd)

\* C23: a tool-call request never lets an exception leave the handler; a call
\* in which an error was thrown (missing arguments, an unknown tool name, an
\* error of the store) is answered with isError true and leaves the rows as
\* they were.
ErrorBoundaryC23 ==
    last.op = "callTool" =>
        /\ last.response.escaped = "none"
        /\ last.failed => (last.response.isError /\ rows = last.before)

\* A cortex_add with arguments the table rejects has been answered while the
\* file holds rows.
WitnessC23 ==
    /\ last.op = "callTool"
    /\ last.failed
    /\ last.request.name = "cortex_add"
    /\ last.request.args.has
    /\ rows # {}

IdempotentInitC28 ==
    last.op = "new" => (last.err = "none" /\ rows = last.before)

\* C25: the identifier derived from a git repository is the same in every
\* checkout of that repository, wherever its root directory is placed and
\* whatever it is called: two working directories that lie in checkouts of the
\* one repository have the same identifier.
CheckoutIndependentC25 ==
    \A c1 \in DOMAIN cache : \A c2 \in DOMAIN cache :
        (findGitRoot(fs, c1).ret.has /\ findGitRoot(fs, c2).ret.has)
            => cache[c1] = cache[c2]

\* C26: list(options) and search("", options) return the same memories in the
\* same order: what a call of list returned is a result search("", options)
\* has on the same rows for the same instance, and what search("", options)
\* returned is a result of list(options).
ListSearchC26 ==
    /\ last.op = "list" =>
          last.ret \in SearchResults(rows, last.store, <<>>, last.opts)
    /\ (last.op = "search" /\ last.query = <<>>) =>
          last.ret \in ListResults(rows, last.store, last.opts)

\* search("", options) returned two memories of different contents.
WitnessC26 ==
    /\ last.op = "search"
    /\ last.query = <<>>
    /\ Len(last.ret) = 2
    /\ last.ret[1].content # last.ret[2].content

\* C27: search(q, {type: t}) returns exactly the memories of search(q) whose
\* type is t, and list({type: t}) exactly those of list() whose type is t, in
\* the same relative order: what the call with the type returned is a result
\* of the call without it with the memories of other types struck out.
TypeFilterC27 ==
    (last.op \in {"search", "list"} /\ TruthyStr(last.opts.type) /\ ~last.opts.limit.has) =>
        LET HasType(m) == m.type = last.opts.type.val
            untyped == IF last.op = "search"
                       THEN SearchResults(rows, last.store, last.query, NoOptions)
                       ELSE ListResults(rows, last.store, NoOptions)
        IN  \E u \in untyped : last.ret = SelectSeq(u, HasType)

\* A search with a type returned one of two memories that match its query.
WitnessC27 ==
    /\ last.op = "search"
    /\ last.query = <<"A">>
    /\ last.opts = [type |-> Some("note"), limit |-> NullNum]
    /\ last.store = GlobalStore
    /\ Len(last.ret) = 1
    /\ \E r \in rows : r.type = "fact"

\* The number of segments of a path.
SegmentCount(path) == Len(NormalizeSegments(Segments(resolve(path), 1, <<>>), <<>>))

\* C29: an ancestor walk of findGitRoot or findPackageJson probes at most as
\* many levels as the start path has segments, each level a strictly shorter
\* path than the one before, and a lookup that fails ends the walk there with
\* 'not found'.
WalkTerminationC29 ==
    last.op \in {"findGitRoot", "findPackageJson"} =>
        /\ Len(last.probed) <= SegmentCount(last.startPath)
        /\ \A i \in 1..(Len(last.probed) - 1) :
              Len(last.probed[i + 1]) < Len(last.probed[i])
        /\ \A i \in 1..Len(last.probed) :
              Denied(fs, last.probed[i]) => (i = Len(last.probed) /\ ~last.ret.has)

\* Neither the directory of path c nor any of its ancestors holds .git or
\* package.json on f.
Unmarked(f, c) ==
    \A a \in AncestorsOrSelf(resolve(c)) :
        /\ ~existsSync(f, join(a, GitName))
        /\ ~existsSync(f, join(a, PackageJsonName))

\* C30 as stated: two different directories with no marker and no manifest in
\* themselves or any ancestor have different identifiers, also where their
\* paths differ only in letter case.
DistinctDirectoriesC30 ==
    \A c1 \in DOMAIN cache : \A c2 \in DOMAIN cache :
        (/\ Unmarked(fs, c1)
         /\ Unmarked(fs, c2)
         /\ ~SamePath(fs, resolve(c1), resolve(c2))) =>
            cache[c1] # cache[c2]

\* C30 amended: two directories with no marker and no manifest in themselves
\* or any ancestor have different identifiers where their resolved paths
\* differ in more than letter case and separator style, and the same
\* identifier where they differ in nothing else.
DistinctDirectoriesAmendedC30 ==
    \A c1 \in DOMAIN cache : \A c2 \in DOMAIN cache :
        (Unmarked(fs, c1) /\ Unmarked(fs, c2)) =>
            (cache[c1] = cache[c2] <=> Canonical(resolve(c1)) = Canonical(resolve(c2)))

\* Identifiers are known for /R, /R/p and /R/P, three directories of a
\* filesystem that tells letter case apart, none of them with a marker or a
\* manifest in or above it.
WitnessC30 ==
    /\ {DirR, DirP, DirPUpper} \subseteq DOMAIN cache
    /\ ~fs.fold
    /\ Unmarked(fs, DirR)
    /\ Unmarked(fs, DirP)
    /\ Unmarked(fs, DirPUpper)

\* C31: no operation changes a field of a row that stays; rows appear only
\* through add, with the fields of the memory added, the time of the insert
\* as created_at and updated_at equal to it, and disappear only through
\* delete or clear.
RowImmutabilityC31 ==
    [][/\ \A r \in rows : (\E r2 \in rows' : r2.id = r.id) => r \in rows'
       /\ rows' \ rows # {} => last'.op = "add"
       /\ rows \ rows' # {} => last'.op \in {"delete", "clear", "cli delete"}
       /\ \A r \in rows' \ rows :
             /\ r.id = last'.ret
             /\ r.project_id = AddProjectId(last'.store, last'.mem)
             /\ r.content = last'.mem.content
             /\ r.type = last'.mem.type
             /\ r.source = last'.mem.source
             /\ r.tags = TagsColumn(last'.mem.tags)
             /\ r.metadata = MetadataColumn(last'.mem.metadata)
             /\ r.created_at = clock
       /\ \A r \in rows' : r.updated_at = r.created_at]_vars

\* A delete removed one of two rows and left the other.
WitnessC31 ==
    /\ last.op = "delete"
    /\ last.before # rows
    /\ rows # {}

\* C32: when instances interleave their add calls, the id an add returns is
\* the id of the row that very call inserted, and the row stored under that
\* id has the content passed to the call.
OwnRowIdC32 ==
    (last.op = "add" /\ last.err = "none" /\ last.conn \in Conns) =>
        /\ last.ret = last.own
        /\ \A r \in rows : r.id = last.ret => r.content = last.mem.content

\* An add returned after the other instance had inserted a row of its own
\* between the two statements of the call.
WitnessC32 ==
    /\ last.op = "add"
    /\ last.err = "none"
    /\ last.conn \in Conns
    /\ \E r \in rows : r.id > last.own /\ r.content # last.mem.content
    /\ \E r \in rows : r.id = last.own

\* C33: the number clear() returns is the number of rows the call removed,
\* also when another instance added or deleted memories of the project
\* between the count query and the DELETE.
ClearCountC33 ==
    (last.op = "clear" /\ last.conn \in Conns) =>
        last.ret = Cardinality(last.before \ rows)

\* C34: a memory whose add has completed through the core store or the
\* editor's store stays in the backing file until a delete of its id or a
\* clear: no add, delete of another id, initialization or close of an
\* instance that loaded the file earlier takes it out of the file.
NoLostWriteC34 ==
    [][\A r \in rows \ rows' :
          \/ last'.op = "delete" /\ last'.id = r.id
          \/ last'.op = "clear"
          \/ last'.op = "editor" /\ last'.call.op = "delete" /\ last'.call.id = r.id
          \/ last'.op = "editor" /\ last'.call.op = "clear"]_vars

\* C35: the editor's store never filters by project.  Of the rows it holds
\* (the file as it loaded it, with its own changes since), whatever their
\* project: list and search return all of them, get finds any of them, stats
\* counts all of them, delete removes the row of the id, clear removes them
\* all and leaves the file empty, and a row it adds has no project identifier.
EditorUnscopedC35 ==
    (last.op = "editor" /\ last.err = "none") =>
        /\ last.call.op \in {"list", "search"} =>
              {last.ret[i].id : i \in 1..Len(last.ret)} = {r.id : r \in last.dbBefore}
        /\ last.call.op = "get" =>
              (last.ret.has <=> \E r \in last.dbBefore : r.id = last.call.id)
        /\ last.call.op = "stats" => last.ret.total = Cardinality(last.dbBefore)
        /\ last.call.op = "delete" =>
              /\ editor.db.rows = {r \in last.dbBefore : r.id # last.call.id}
              /\ rows = editor.db.rows
        /\ last.call.op = "clear" =>
              /\ last.ret = Cardinality(last.dbBefore)
              /\ editor.db.rows = {}
              /\ rows = {}
        /\ last.call.op = "add" =>
              \E r \in rows : r.id = last.ret /\ ~r.project_id.has /\ r \notin last.dbBefore

\* The editor's store lists a memory of project "A" beside one without project,
\* both of them in the file.
WitnessC35 ==
    /\ last.op = "editor" /\ last.err = "none" /\ last.call.op = "list"
    /\ last.dbBefore = rows
    /\ \E r \in rows : r.project_id = Some("A")
    /\ \E r \in rows : ~r.project_id.has
    /\ Len(last.ret) = 2

\* C36: a method of the editor's store invoked before the initialization has
\* finished runs only once it has, and takes effect only on the database
\* initialize() made; the methods run in the order of their invocation; and
\* after each completed add, delete or clear the file holds exactly the rows
\* (and the id sequence) of the instance's database.
InitOrderC36 ==
    last.op = "editor" =>
        /\ editor.init \in {"done", "failed"}
        /\ last.err = "none" => (editor.init = "done" /\ last.hadDb)
        /\ \A i \in 1..Len(editor.calls) : last.ticket < editor.calls[i].ticket
        /\ (last.err = "none" /\ last.call.op \in {"add", "delete", "clear"}) =>
              (rows = editor.db.rows /\ seq = editor.db.seq)

\* An add invoked before the initialization finished has run, a later call
\* still waiting, on a file another instance had written first.
WitnessC36 ==
    /\ last.op = "editor" /\ last.early /\ last.err = "none" /\ last.call.op = "add"
    /\ editor.calls # <<>>
    /\ \E r \in last.dbBefore : r.project_id = Some("A")

\* C37: once close() has returned on the editor's store, every method invoked
\* later rejects and changes neither the instance's database nor the file; and
\* a second close() changes nothing.
AfterCloseC37 ==
    /\ (last.op = "editor" /\ last.afterClose) =>
          /\ last.err # "none"
          /\ rows = last.before
          /\ editor.db.rows = last.dbBefore
    /\ (last.op = "editor close" /\ last.again) =>
          /\ rows = last.before
          /\ editor.db.rows = last.dbBefore
          /\ ~last.hadDb

\* C38: between two invalidations provideTasks starts at most one detectTasks
\* run, every call in between returning the promise of that run; and a call
\* made after a watcher event returns the promise of a run started after that
\* event, also while an earlier run is still scanning, so that no caller
\* receives the tasks of a run started before the last invalidation that
\* preceded its call.
TaskCacheC38 ==
    /\ \A i, j \in 1..Len(provider.runs) :
          i # j => provider.runs[i].epoch # provider.runs[j].epoch
    /\ \A c \in 1..Len(provider.calls) :
          /\ provider.calls[c].promise \in 1..Len(provider.runs)
          /\ provider.runs[provider.calls[c].promise].epoch = provider.calls[c].epoch
    /\ last.op = "provideTasks" =>
          (last.started <=> \A c \in 1..(Len(provider.calls) - 1) :
                               provider.calls[c].epoch # provider.epoch)

\* A caller receives the tasks of the run its call started after a watcher
\* event, while the run started before the event is still scanning.
WitnessC38 ==
    /\ last.op = "received"
    /\ provider.calls[last.call].epoch > 0
    /\ provider.calls[last.call].promise = 2
    /\ provider.runs[1].state = "scanning"

====
